---- MODULE Spec2Model ----
(***************************************************************************)
(* Model of the dynamic string of M*LIB (m-string.h).                      *)
(*                                                                         *)
(* A string is the C structure { union { heap {size, alloc};               *)
(* stack { buffer[16] } } u; char *ptr; } on a 64-bit little-endian        *)
(* target: the union is kept as its 16 bytes, so that the heap fields and  *)
(* the inline buffer overlap as they do in memory.  Heap blocks are        *)
(* sequences of bytes indexed by block identifier.  A byte is 0..255; the  *)
(* value U stands for a byte that was never written.  given is the set of  *)
(* heap blocks handed over to the caller.  variants holds the objects of a *)
(* variant type of m-variant.h and the field values constructed so far.    *)
(***************************************************************************)
EXTENDS Integers, Sequences, FiniteSets, TLC

VARIABLES v, heap, ub, aborted, live, charSigned, printHigh, last, steps,
          given, variants

vars == <<v, heap, ub, aborted, live, charSigned, printHigh, last, steps,
          given, variants>>

(***************************************************************************)
(* Bounds of the model                                                     *)
(***************************************************************************)
MaxSteps == 2

(***************************************************************************)
(* Program constants                                                       *)
(***************************************************************************)
SIZEOF_string_heap_ct == 16
CHAR_MAX == 127
\* a byte that was never written: one above the largest unsigned char
U == 2 * CHAR_MAX + 2
\* stands for every size_t value of 2^24 and more
Huge == 256 * 256 * 256

\* two strings: no operation takes more than two
StrIds == {1, 2}
BlockIds == {1, 2, 3}

\* F applied to the value of e: sequencing of two steps of a function body
Then(e, F(_)) == CHOOSE r \in { F(x) : x \in { e } } : TRUE

Min(a, b) == IF a < b THEN a ELSE b
Max(a, b) == IF a < b THEN b ELSE a

(***************************************************************************)
(* size_t fields of the union, little endian.  Values of 2^24 and more     *)
(* (or fields holding a byte never written) read as Huge, a value above    *)
(* every size the model builds.                                            *)
(***************************************************************************)
WordBytes(n) ==
  << n % 256, (n \div 256) % 256, (n \div 65536) % 256, 0, 0, 0, 0, 0 >>

WordVal(b) ==
  IF /\ \A k \in 1..3 : b[k] < 256
     /\ \A k \in 4..8 : b[k] = 0
  THEN b[1] + 256 * b[2] + 65536 * b[3]
  ELSE Huge

\* (size_t) of a char: sign extension when char is signed
CharToSize(b) ==
  IF b >= 256 THEN Huge
  ELSE IF charSigned /\ b >= 128 THEN Huge ELSE b

heap_size(s) == WordVal(SubSeq(s.u, 1, 8))
heap_alloc(s) == WordVal(SubSeq(s.u, 9, 16))

m_str1ng_stack_p(s) == s.ptr = 0

string_size(s) ==
  IF m_str1ng_stack_p(s) THEN CharToSize(s.u[SIZEOF_string_heap_ct])
  ELSE heap_size(s)

\* string_capacity that counts the byte of the terminator
string_capacity_full(s) ==
  IF m_str1ng_stack_p(s) THEN SIZEOF_string_heap_ct ELSE heap_alloc(s)

string_capacity(s) ==
  IF m_str1ng_stack_p(s) THEN SIZEOF_string_heap_ct - 1 ELSE heap_alloc(s)

(***************************************************************************)
(* The machine: M.v the strings, M.heap the heap blocks (<<>> when the     *)
(* block is not allocated), M.ub set once an access fell outside its       *)
(* buffer, M.aborted set once abort() was called.                          *)
(***************************************************************************)
\* the bytes string_get_cstr(v) points to
Buf(M, i) ==
  IF m_str1ng_stack_p(M.v[i]) THEN M.v[i].u ELSE M.heap[M.v[i].ptr]

\* ptr[k]
Rd(M, i, k) ==
  IF k >= 0 /\ k < Len(Buf(M, i)) THEN Buf(M, i)[k + 1] ELSE U

\* n bytes that were never written
Fill(n) == [k \in 1..n |-> U]

\* the n bytes at buf + k; a byte outside the buffer reads as U
Slice(buf, k, n) ==
  IF k >= 0 /\ k + n <= Len(buf) THEN SubSeq(buf, k + 1, k + n)
  ELSE LET lo == Min(Max(k, 0), Len(buf))
           hi == Max(Min(k + n, Len(buf)), lo)
       IN  Fill(Min(lo - k, n)) \o SubSeq(buf, lo + 1, hi)
             \o Fill(n - Min(lo - k, n) - (hi - lo))

\* the first n bytes at ptr + k
Bytes(M, i, k, n) == Slice(Buf(M, i), k, n)

\* content of the string: size bytes from the start of the buffer
Content(M, i) == Bytes(M, i, 0, string_size(M.v[i]))

\* buf with bytes written at offset k (the part that falls inside buf)
Overlay(buf, k, bytes) ==
  LET lo == Min(Max(k, 0), Len(buf))
      hi == Max(Min(k + Len(bytes), Len(buf)), lo)
  IN  SubSeq(buf, 1, lo) \o SubSeq(bytes, lo - k + 1, hi - k)
        \o SubSeq(buf, hi + 1, Len(buf))

\* memcpy(&ptr[k], bytes, Len(bytes)): a write outside the buffer is
\* undefined behaviour, recorded in ub
WrAt(M, i, k, bytes) ==
  LET s == M.v[i]
      fits == k >= 0 /\ k + Len(bytes) <= Len(Buf(M, i))
      M1 == IF m_str1ng_stack_p(s)
            THEN [M EXCEPT !.v[i].u = Overlay(s.u, k, bytes)]
            ELSE [M EXCEPT !.heap[s.ptr] = Overlay(M.heap[s.ptr], k, bytes)]
  IN  IF Len(bytes) = 0 THEN M
      ELSE [M1 EXCEPT !.ub = M.ub \/ ~fits]

\* memmove(&ptr[dst], &ptr[src], n)
MemMove(M, i, dst, src, n) ==
  LET M1 == WrAt(M, i, dst, Bytes(M, i, src, n))
  IN  [M1 EXCEPT !.ub = M1.ub \/ (n > 0 /\ (src < 0 \/ src + n > Len(Buf(M, i))))]

m_str1ng_set_size(M, i, size) ==
  IF m_str1ng_stack_p(M.v[i])
  THEN [M EXCEPT !.v[i].u =
          SubSeq(M.v[i].u, 1, SIZEOF_string_heap_ct - 1) \o << size % 256 >>]
  ELSE [M EXCEPT !.v[i].u = WordBytes(size) \o SubSeq(M.v[i].u, 9, 16)]

string_init(M, i) ==
  Then([M EXCEPT !.v[i] =
          [ptr |-> 0, u |-> << 0 >> \o Fill(SIZEOF_string_heap_ct - 1)]],
       LAMBDA M1 : m_str1ng_set_size(M1, i, 0))

(***************************************************************************)
(* Allocator                                                               *)
(***************************************************************************)
FreshBlock(M) ==
  CHOOSE b \in BlockIds :
    /\ M.heap[b] = << >>
    /\ \A c \in BlockIds : M.heap[c] = << >> => b <= c

\* realloc(ptr, alloc): the block keeps its identifier and its first bytes
Realloc(M, p, alloc) ==
  LET b == IF p = 0 THEN FreshBlock(M) ELSE p
      old == IF p = 0 THEN << >> ELSE M.heap[p]
  IN  [blk |-> b,
       M |-> [M EXCEPT !.heap[b] =
                SubSeq(old, 1, Min(Len(old), alloc)) \o Fill(alloc - Len(old))]]

Free(M, p) == [M EXCEPT !.heap[p] = << >>]

\* m_str1ng_fit2size that allocates exactly the requested size
m_str1ng_fit2size_exact(M, i, size_alloc) ==
  LET s == M.v[i]
      old_alloc == string_capacity(s)
      alloc == size_alloc
      size == CharToSize(s.u[SIZEOF_string_heap_ct]) + 1
  IN  IF size_alloc > old_alloc
      THEN Then(Realloc(M, s.ptr, alloc), LAMBDA R :
             [R.M EXCEPT
                !.heap[R.blk] =
                   IF m_str1ng_stack_p(s)
                   THEN Overlay(R.M.heap[R.blk], 0,
                                SubSeq(s.u, 1, Min(size, SIZEOF_string_heap_ct)))
                   ELSE R.M.heap[R.blk],
                !.v[i] = [ptr |-> R.blk,
                          u |-> SubSeq(s.u, 1, 8) \o WordBytes(alloc)]])
      ELSE M

m_str1ng_fit2size(M, i, size_alloc) ==
  LET s == M.v[i]
      old_alloc == string_capacity(s)
      alloc == size_alloc + size_alloc \div 2
      size == CharToSize(s.u[SIZEOF_string_heap_ct]) + 1
  IN  IF size_alloc > old_alloc
      THEN IF alloc <= old_alloc
           THEN [M EXCEPT !.aborted = TRUE]
           ELSE Then(Realloc(M, s.ptr, alloc), LAMBDA R :
                  [R.M EXCEPT
                     !.heap[R.blk] =
                        IF m_str1ng_stack_p(s)
                        THEN Overlay(R.M.heap[R.blk], 0,
                                     SubSeq(s.u, 1, Min(size, SIZEOF_string_heap_ct)))
                        ELSE R.M.heap[R.blk],
                     !.v[i] = [ptr |-> R.blk,
                               u |-> SubSeq(s.u, 1, 8) \o WordBytes(alloc)]])
      ELSE M

\* the rest of a function body after m_str1ng_fit2size, which does not
\* return when it aborts
AfterFit(M, F(_)) == Then(M, LAMBDA M1 : IF M1.aborted THEN M1 ELSE F(M1))

(***************************************************************************)
(* Constructors, destructor, capacity                                      *)
(***************************************************************************)
\* string_clear that keeps the heap block
string_clear_nofree(M, i) ==
  [M EXCEPT !.v[i] =
     [ptr |-> 0,
      u |-> SubSeq(M.v[i].u, 1, SIZEOF_string_heap_ct - 1) \o << CHAR_MAX >>]]

string_clear(M, i) ==
  LET s == M.v[i]
  IN  Then(IF ~m_str1ng_stack_p(s)
           THEN [Free(M, s.ptr) EXCEPT !.v[i].ptr = 0]
           ELSE M,
           LAMBDA M1 :
             [M1 EXCEPT !.v[i].u =
                SubSeq(M1.v[i].u, 1, SIZEOF_string_heap_ct - 1) \o << CHAR_MAX >>])

\* the machine and the block returned: the block of a heap-backed string,
\* a new block of size + 1 bytes with a copy of the inline buffer otherwise
string_clear_get_str(M, i) ==
  LET s == M.v[i]
      alloc == string_size(s) + 1
      mark(M1) == [M1 EXCEPT !.v[i] =
                     [ptr |-> 0,
                      u |-> SubSeq(s.u, 1, SIZEOF_string_heap_ct - 1)
                              \o << CHAR_MAX >>]]
  IN  IF m_str1ng_stack_p(s)
      THEN Then(Realloc(M, 0, alloc), LAMBDA R :
             [M |-> mark([R.M EXCEPT !.heap[R.blk] =
                            Overlay(R.M.heap[R.blk], 0, Slice(s.u, 0, alloc))]),
              p |-> R.blk])
      ELSE [M |-> mark(M), p |-> s.ptr]

string_reset(M, i) ==
  Then(m_str1ng_set_size(M, i, 0), LAMBDA M1 : WrAt(M1, i, 0, << 0 >>))

\* string_reserve that demotes when the allocation equals the size of the
\* inline buffer plus its size byte
string_reserve_le(M, i, alloc0) ==
  LET s == M.v[i]
      size == string_size(s)
      alloc == IF size + 1 > alloc0 THEN size + 1 ELSE alloc0
  IN  IF alloc <= SIZEOF_string_heap_ct
      THEN IF ~m_str1ng_stack_p(s)
           THEN Then([Free(M, s.ptr) EXCEPT
                        !.v[i] = [ptr |-> 0,
                                  u |-> Overlay(s.u, 0,
                                                SubSeq(M.heap[s.ptr], 1, size + 1))]],
                     LAMBDA M1 : m_str1ng_set_size(M1, i, size))
           ELSE M
      ELSE Then(Realloc(M, s.ptr, alloc), LAMBDA R :
             [R.M EXCEPT
                !.heap[R.blk] =
                   IF m_str1ng_stack_p(s)
                   THEN Overlay(R.M.heap[R.blk], 0, SubSeq(s.u, 1, size + 1))
                   ELSE R.M.heap[R.blk],
                !.v[i] = [ptr |-> R.blk,
                          u |-> (IF m_str1ng_stack_p(s) THEN WordBytes(size)
                                 ELSE SubSeq(s.u, 1, 8)) \o WordBytes(alloc)]])

string_reserve(M, i, alloc0) ==
  LET s == M.v[i]
      size == string_size(s)
      alloc == IF size + 1 > alloc0 THEN size + 1 ELSE alloc0
  IN  IF alloc < SIZEOF_string_heap_ct
      THEN IF ~m_str1ng_stack_p(s)
           THEN Then([Free(M, s.ptr) EXCEPT
                        !.v[i] = [ptr |-> 0,
                                  u |-> Overlay(s.u, 0,
                                                SubSeq(M.heap[s.ptr], 1, size + 1))]],
                     LAMBDA M1 : m_str1ng_set_size(M1, i, size))
           ELSE M
      ELSE Then(Realloc(M, s.ptr, alloc), LAMBDA R :
             [R.M EXCEPT
                !.heap[R.blk] =
                   IF m_str1ng_stack_p(s)
                   THEN Overlay(R.M.heap[R.blk], 0, SubSeq(s.u, 1, size + 1))
                   ELSE R.M.heap[R.blk],
                !.v[i] = [ptr |-> R.blk,
                          u |-> (IF m_str1ng_stack_p(s) THEN WordBytes(size)
                                 ELSE SubSeq(s.u, 1, 8)) \o WordBytes(alloc)]])

(***************************************************************************)
(* Setters                                                                 *)
(***************************************************************************)
string_set_str(M, i, str) ==
  AfterFit(m_str1ng_fit2size(M, i, Len(str) + 1), LAMBDA M1 :
    Then(WrAt(M1, i, 0, str \o << 0 >>), LAMBDA M2 :
      m_str1ng_set_size(M2, i, Len(str))))

string_set_strn(M, i, str, n) ==
  LET size == Min(Len(str), n)
  IN  AfterFit(m_str1ng_fit2size(M, i, size + 1), LAMBDA M1 :
        Then(WrAt(M1, i, 0, SubSeq(str, 1, size)), LAMBDA M2 :
          Then(WrAt(M2, i, size, << 0 >>), LAMBDA M3 :
            m_str1ng_set_size(M3, i, size))))

string_set(M, i, j) ==
  LET size == string_size(M.v[j])
  IN  IF i # j
      THEN AfterFit(m_str1ng_fit2size(M, i, size + 1), LAMBDA M1 :
             Then(WrAt(M1, i, 0, Bytes(M1, j, 0, size + 1)), LAMBDA M2 :
               m_str1ng_set_size(M2, i, size)))
      ELSE M

string_set_n(M, i, j, offset, length) ==
  LET size == Min(string_size(M.v[j]) - offset, length)
  IN  AfterFit(m_str1ng_fit2size(M, i, size + 1), LAMBDA M1 :
        Then(WrAt(M1, i, 0, Bytes(M1, j, offset, size)), LAMBDA M2 :
          Then(WrAt(M2, i, size, << 0 >>), LAMBDA M3 :
            m_str1ng_set_size(M3, i, size))))

\* string_init_move that leaves the pointer of the source in place
string_init_move_alias(M, i, j) ==
  [M EXCEPT !.v[i] = M.v[j]]

string_init_move(M, i, j) ==
  [M EXCEPT !.v[i] = M.v[j], !.v[j].ptr = 0]

string_swap(M, i, j) ==
  [M EXCEPT !.v[i] = M.v[j], !.v[j] = M.v[i]]

string_move(M, i, j) ==
  Then(string_clear(M, i), LAMBDA M1 : string_init_move(M1, i, j))

(***************************************************************************)
(* Append                                                                  *)
(***************************************************************************)
\* string_push_back that does not write the terminator
string_push_back_noterm(M, i, c) ==
  LET size == string_size(M.v[i])
  IN  AfterFit(m_str1ng_fit2size(M, i, size + 2), LAMBDA M1 :
        Then(WrAt(M1, i, size, << c >>), LAMBDA M2 :
          m_str1ng_set_size(M2, i, size + 1)))

string_push_back(M, i, c) ==
  LET size == string_size(M.v[i])
  IN  AfterFit(m_str1ng_fit2size(M, i, size + 2), LAMBDA M1 :
        Then(WrAt(M1, i, size, << c >>), LAMBDA M2 :
          Then(WrAt(M2, i, size + 1, << 0 >>), LAMBDA M3 :
            m_str1ng_set_size(M3, i, size + 1))))

string_cat_str(M, i, str) ==
  LET old_size == string_size(M.v[i])
      size == Len(str)
  IN  AfterFit(m_str1ng_fit2size(M, i, old_size + size + 1), LAMBDA M1 :
        Then(WrAt(M1, i, old_size, str \o << 0 >>), LAMBDA M2 :
          m_str1ng_set_size(M2, i, old_size + size)))

string_cat(M, i, j) ==
  LET size == string_size(M.v[j])
      old_size == string_size(M.v[i])
  IN  IF size > 0
      THEN AfterFit(m_str1ng_fit2size(M, i, old_size + size + 1), LAMBDA M1 :
             Then(WrAt(M1, i, old_size, Bytes(M1, j, 0, size)), LAMBDA M2 :
               Then(WrAt(M2, i, old_size + size, << 0 >>), LAMBDA M3 :
                 m_str1ng_set_size(M3, i, old_size + size))))
      ELSE M

(***************************************************************************)
(* Substrings                                                              *)
(***************************************************************************)
\* string_left that gives the unused storage back
string_left_shrink(M, i, index) ==
  LET size == string_size(M.v[i])
  IN  IF index >= size THEN M
      ELSE Then(WrAt(M, i, index, << 0 >>), LAMBDA M1 :
             Then(m_str1ng_set_size(M1, i, index), LAMBDA M2 :
               string_reserve(M2, i, 0)))

string_left(M, i, index) ==
  LET size == string_size(M.v[i])
  IN  IF index >= size THEN M
      ELSE Then(WrAt(M, i, index, << 0 >>), LAMBDA M1 :
             m_str1ng_set_size(M1, i, index))

\* string_right that moves the bytes without their terminator
string_right_noterm(M, i, index) ==
  LET size == string_size(M.v[i])
      s2 == size - index
  IN  IF index >= size
      THEN Then(WrAt(M, i, 0, << 0 >>), LAMBDA M1 : m_str1ng_set_size(M1, i, 0))
      ELSE Then(MemMove(M, i, 0, index, s2), LAMBDA M1 :
             m_str1ng_set_size(M1, i, s2))

string_right(M, i, index) ==
  LET size == string_size(M.v[i])
      s2 == size - index
  IN  IF index >= size
      THEN Then(WrAt(M, i, 0, << 0 >>), LAMBDA M1 : m_str1ng_set_size(M1, i, 0))
      ELSE Then(MemMove(M, i, 0, index, s2 + 1), LAMBDA M1 :
             m_str1ng_set_size(M1, i, s2))

string_mid(M, i, index, size) ==
  Then(string_right(M, i, index), LAMBDA M1 : string_left(M1, i, size))

(***************************************************************************)
(* Search and replace                                                      *)
(***************************************************************************)
STRING_FAILURE == -1

IsAt(hay, k, needle) ==
  /\ k + Len(needle) <= Len(hay)
  /\ SubSeq(hay, k + 1, k + Len(needle)) = needle

\* strstr(hay, needle) as an offset in hay, -1 for NULL
RECURSIVE StrStrFrom(_, _, _)
StrStrFrom(hay, needle, k) ==
  IF k + Len(needle) > Len(hay) THEN -1
  ELSE IF IsAt(hay, k, needle) THEN k
  ELSE StrStrFrom(hay, needle, k + 1)

StrStr(hay, needle) == StrStrFrom(hay, needle, 0)

\* the C string (bytes before the first NUL) that starts at ptr + k
CStrAt(M, i, k) ==
  LET buf == Buf(M, i)
      rest == SubSeq(buf, k + 1, Len(buf))
      z == StrStr(rest, << 0 >>)
  IN  IF z = -1 THEN rest ELSE SubSeq(rest, 1, z)

string_search_str(M, i, str, start) ==
  Then(StrStr(CStrAt(M, i, start), str), LAMBDA p :
    IF p = -1 THEN STRING_FAILURE ELSE p + start)

\* the common tail of string_replace_str and string_replace_at
Splice(M, i, pos, str1_l, str2) ==
  LET str2_l == Len(str2)
      size == string_size(M.v[i])
  IN  IF str1_l # str2_l
      THEN AfterFit(m_str1ng_fit2size(M, i, size + str2_l - str1_l + 1), LAMBDA M1 :
             Then(MemMove(M1, i, pos + str2_l, pos + str1_l,
                          size - pos - str1_l + 1), LAMBDA M2 :
               Then(m_str1ng_set_size(M2, i, size + str2_l - str1_l), LAMBDA M3 :
                 WrAt(M3, i, pos, str2))))
      ELSE WrAt(M, i, pos, str2)

string_replace_str(M, i, str1, str2, start) ==
  Then(string_search_str(M, i, str1, start), LAMBDA pos :
    IF pos # STRING_FAILURE THEN Splice(M, i, pos, Len(str1), str2) ELSE M)

\* string_replace_at that copies str2 without moving the bytes after it
string_replace_at_nomove(M, i, pos, len, str2) ==
  WrAt(M, i, pos, str2)

string_replace_at(M, i, pos, len, str2) ==
  Splice(M, i, pos, len, str2)

\* the loop of m_str1ng_replace_all_str_1ge2: src and dst are offsets from org
RECURSIVE replace_1ge2_loop(_, _, _, _, _, _)
replace_1ge2_loop(M, i, str1, str2, src, dst) ==
  IF Rd(M, i, src) = 0 THEN [M |-> M, src |-> src, dst |-> dst]
  ELSE Then(StrStr(CStrAt(M, i, src), str1), LAMBDA p :
         IF p = -1 THEN [M |-> M, src |-> src, dst |-> dst]
         ELSE Then(IF src # dst THEN MemMove(M, i, dst, src, p) ELSE M, LAMBDA M1 :
                Then(WrAt(M1, i, dst + p, str2), LAMBDA M2 :
                  replace_1ge2_loop(M2, i, str1, str2,
                                    src + p + Len(str1), dst + p + Len(str2)))))

\* m_str1ng_replace_all_str_1ge2 that does not move the bytes after the last
\* occurrence
m_str1ng_replace_all_str_1ge2_notail(M, i, str1, str2) ==
  LET vlen == string_size(M.v[i])
  IN  Then(replace_1ge2_loop(M, i, str1, str2, 0, 0), LAMBDA L :
        m_str1ng_set_size(L.M, i, L.dst + vlen - L.src))

m_str1ng_replace_all_str_1ge2(M, i, str1, str2) ==
  LET vlen == string_size(M.v[i])
  IN  Then(replace_1ge2_loop(M, i, str1, str2, 0, 0), LAMBDA L :
        Then(IF L.src # L.dst
             THEN MemMove(L.M, i, L.dst, L.src, vlen + 1 - L.src)
             ELSE L.M,
             LAMBDA M1 : m_str1ng_set_size(M1, i, L.dst + vlen - L.src)))

\* m_str1ng_strstr_r: offsets from org, -1 for NULL
RECURSIVE strstr_r_loop(_, _, _, _)
strstr_r_loop(M, i, src, pattern) ==
  LET n == Len(pattern)
  IN  IF ~(0 <= src) THEN -1
      ELSE IF /\ Rd(M, i, src) = pattern[1]
              /\ Rd(M, i, src + n - 1) = pattern[n]
              /\ Bytes(M, i, src, n) = pattern
           THEN src
           ELSE strstr_r_loop(M, i, src - 1, pattern)

m_str1ng_strstr_r(M, i, src, pattern) ==
  strstr_r_loop(M, i, src - (Len(pattern) - 1), pattern)

\* the loop of m_str1ng_replace_all_str_1lo2
RECURSIVE replace_1lo2_loop(_, _, _, _, _, _)
replace_1lo2_loop(M, i, str1, str2, src, dst) ==
  IF ~(src >= 0) THEN [M |-> M, src |-> src, dst |-> dst]
  ELSE Then(m_str1ng_strstr_r(M, i, src, str1), LAMBDA occ :
         IF occ = -1 THEN [M |-> M, src |-> src, dst |-> dst]
         ELSE LET gap == src - (occ + Len(str1) - 1)
              IN  Then(MemMove(M, i, dst - gap, occ + Len(str1), gap), LAMBDA M1 :
                    Then(WrAt(M1, i, dst - gap - Len(str2), str2), LAMBDA M2 :
                      replace_1lo2_loop(M2, i, str1, str2, occ - 1,
                                        dst - gap - Len(str2)))))

m_str1ng_replace_all_str_1lo2(M, i, str1, str2) ==
  LET vlen == string_size(M.v[i])
      alloc == 1 + (vlen \div Len(str1)) * Len(str2)
  IN  AfterFit(m_str1ng_fit2size(M, i, alloc), LAMBDA M0 :
        LET end == string_capacity(M0.v[i])
        IN  Then(replace_1lo2_loop(M0, i, str1, str2, vlen - 1, end), LAMBDA L :
              LET vlen2 == L.src + end - L.dst + 1
              IN  Then(MemMove(L.M, i, L.src + 1, L.dst, end - L.dst), LAMBDA M1 :
                    Then(WrAt(M1, i, vlen2, << 0 >>), LAMBDA M2 :
                      m_str1ng_set_size(M2, i, vlen2)))))

string_replace_all_str(M, i, str1, str2) ==
  IF Len(str1) >= Len(str2)
  THEN m_str1ng_replace_all_str_1ge2(M, i, str1, str2)
  ELSE m_str1ng_replace_all_str_1lo2(M, i, str1, str2)

(***************************************************************************)
(* Trim                                                                    *)
(***************************************************************************)
m_str1ng_strim_char(c, charac) == \E k \in 1..Len(charac) : c = charac[k]

RECURSIVE strim_tail(_, _, _, _)
strim_tail(M, i, size, charac) ==
  IF size > 0 /\ m_str1ng_strim_char(Rd(M, i, size - 1), charac)
  THEN strim_tail(M, i, size - 1, charac)
  ELSE size

RECURSIVE strim_head(_, _, _, _)
strim_head(M, i, b, charac) ==
  IF m_str1ng_strim_char(Rd(M, i, b), charac)
  THEN strim_head(M, i, b + 1, charac)
  ELSE b

\* string_strim that leaves the beginning of the string as it is
string_strim_tail_only(M, i, charac) ==
  Then(strim_tail(M, i, string_size(M.v[i]), charac), LAMBDA size1 :
    Then(WrAt(M, i, size1, << 0 >>), LAMBDA M2 :
      m_str1ng_set_size(M2, i, size1)))

string_strim(M, i, charac) ==
  Then(strim_tail(M, i, string_size(M.v[i]), charac), LAMBDA size1 :
    Then(IF size1 > 0 THEN strim_head(M, i, 0, charac) ELSE 0, LAMBDA b :
      Then(IF size1 > 0 THEN MemMove(M, i, 0, b, size1 - b) ELSE M, LAMBDA M1 :
        Then(WrAt(M1, i, size1 - b, << 0 >>), LAMBDA M2 :
          m_str1ng_set_size(M2, i, size1 - b)))))

(***************************************************************************)
(* State machine of the string operations                                  *)
(***************************************************************************)
Mach == [v |-> v, heap |-> heap, ub |-> ub, aborted |-> aborted]

\* no variant object, no field value
NoVariants == [my |-> << >>, made |-> << >>, init_move |-> FALSE]

\* a string object before string_init
UninitUnion == Fill(SIZEOF_string_heap_ct)

NoMach ==
  [v |-> [i \in StrIds |-> [ptr |-> 0, u |-> UninitUnion]],
   heap |-> [b \in BlockIds |-> << >>],
   ub |-> FALSE, aborted |-> FALSE]

\* the 15 bytes "abababababababa": the shortest content that needs the heap
Long == << 97, 98, 97, 98, 97, 98, 97, 98, 97, 98, 97, 98, 97, 98, 97 >>

Short == << 97, 98, 97 >>

CStrs == { Short, Long }
Patterns == { << 98, 97 >> }
Replacements == { << >>, << 98 >>, Long }
Chars == { 98 }
CharSets == { << 97 >> }
\* an index inside the content and one beyond every size
Indexes == { 1, 2 * SIZEOF_string_heap_ct + SIZEOF_string_heap_ct }
Reserves == { 0, SIZEOF_string_heap_ct + 1 }

\* an iterator that was not set
NoIt == [u |-> 0, ptr |-> 0, next_ptr |-> 0]

Op(name, i, j, a, b, s1, s2) ==
  [op |-> name, i |-> i, j |-> j, a |-> a, b |-> b, s1 |-> s1, s2 |-> s2,
   ret |-> FALSE, it |-> NoIt, pre |-> Mach]

Start(M, str) ==
  [op |-> "start", i |-> 0, j |-> 0, a |-> 0, b |-> 0, s1 |-> str,
   s2 |-> << >>, ret |-> FALSE, it |-> NoIt, pre |-> M]

\* a string as the program builds it: init, set_str, then possibly reserve
Build(M, i, str, n) ==
  Then(string_init(M, i), LAMBDA M1 :
    Then(string_set_str(M1, i, str), LAMBDA M2 :
      IF n = -1 THEN M2 ELSE string_reserve(M2, i, n)))

\* string 1 is built by init, set_str and possibly reserve; string 2 is
\* built the same way or is still a declared, not yet initialised object.
\* char is signed, as on x86-64; no byte above 127 is used here.
Init ==
  \E s1 \in { << >> } \cup CStrs, n1 \in { -1, SIZEOF_string_heap_ct + 1 },
     s2 \in { << >> } \cup CStrs :
    /\ charSigned = TRUE
    /\ printHigh = FALSE
    /\ \E M \in { Then(Build(NoMach, 1, s1, n1), LAMBDA M1 :
                    IF s2 = << >> THEN M1 ELSE Build(M1, 2, s2, -1)) } :
           /\ v = M.v
           /\ heap = M.heap
           /\ ub = M.ub
           /\ aborted = M.aborted
           /\ last = Start(M, << >>)
    /\ live = [i \in StrIds |-> i = 1 \/ s2 # << >>]
    /\ steps = 0
    /\ given = { }
    /\ variants = NoVariants

Running == steps < MaxSteps /\ ~ub /\ ~aborted

Do(Result, rec) ==
  \E R \in { Result } :
  /\ v' = R.v
  /\ heap' = R.heap
  /\ ub' = R.ub
  /\ aborted' = R.aborted
  /\ last' = rec
  /\ steps' = steps + 1
  /\ UNCHANGED << charSigned, printHigh, given, variants >>

StringInit ==
  \E i \in StrIds :
    /\ Running /\ ~live[i]
    /\ Do(string_init(Mach, i), Op("init", i, 0, 0, 0, << >>, << >>))
    /\ live' = [live EXCEPT ![i] = TRUE]

StringClear ==
  \E i \in StrIds :
    /\ Running /\ live[i]
    /\ Do(string_clear(Mach, i), Op("clear", i, 0, 0, 0, << >>, << >>))
    /\ live' = [live EXCEPT ![i] = FALSE]

StringReset ==
  \E i \in StrIds :
    /\ Running /\ live[i]
    /\ Do(string_reset(Mach, i), Op("reset", i, 0, 0, 0, << >>, << >>))
    /\ UNCHANGED live

StringReserve ==
  \E i \in StrIds, n \in Reserves :
    /\ Running /\ live[i]
    /\ Do(string_reserve(Mach, i, n), Op("reserve", i, 0, n, 0, << >>, << >>))
    /\ UNCHANGED live

StringSetStr ==
  \E i \in StrIds, str \in CStrs :
    /\ Running /\ live[i]
    /\ Do(string_set_str(Mach, i, str), Op("set_str", i, 0, 0, 0, str, << >>))
    /\ UNCHANGED live

StringSetStrn ==
  \E i \in StrIds, str \in { Long }, n \in { 2 } :
    /\ Running /\ live[i]
    /\ Do(string_set_strn(Mach, i, str, n), Op("set_strn", i, 0, n, 0, str, << >>))
    /\ UNCHANGED live

StringSet ==
  \E i \in StrIds, j \in StrIds :
    /\ Running /\ live[i] /\ live[j] /\ i # j
    /\ Do(string_set(Mach, i, j), Op("set", i, j, 0, 0, << >>, << >>))
    /\ UNCHANGED live

StringSetN ==
  \E i \in StrIds, j \in StrIds, offset \in { 1 }, length \in Indexes :
    /\ Running /\ live[i] /\ live[j]
    /\ offset <= string_size(v[j])
    /\ Do(string_set_n(Mach, i, j, offset, length),
          Op("set_n", i, j, offset, length, << >>, << >>))
    /\ UNCHANGED live

StringInitMove ==
  \E i \in StrIds, j \in StrIds :
    /\ Running /\ ~live[i] /\ live[j] /\ i # j
    /\ Do(string_init_move(Mach, i, j), Op("init_move", i, j, 0, 0, << >>, << >>))
    /\ live' = [live EXCEPT ![i] = TRUE, ![j] = FALSE]

StringMove ==
  \E i \in StrIds, j \in StrIds :
    /\ Running /\ live[i] /\ live[j] /\ i # j
    /\ Do(string_move(Mach, i, j), Op("move", i, j, 0, 0, << >>, << >>))
    /\ live' = [live EXCEPT ![j] = FALSE]

StringSwap ==
  \E i \in { 1 }, j \in { 2 } :
    /\ Running /\ live[i] /\ live[j]
    /\ Do(string_swap(Mach, i, j), Op("swap", i, j, 0, 0, << >>, << >>))
    /\ UNCHANGED live

StringPushBack ==
  \E i \in StrIds, c \in Chars :
    /\ Running /\ live[i]
    /\ Do(string_push_back(Mach, i, c), Op("push_back", i, 0, c, 0, << >>, << >>))
    /\ UNCHANGED live

StringCatStr ==
  \E i \in StrIds, str \in { Short } :
    /\ Running /\ live[i]
    /\ Do(string_cat_str(Mach, i, str), Op("cat_str", i, 0, 0, 0, str, << >>))
    /\ UNCHANGED live

StringCat ==
  \E i \in StrIds, j \in StrIds :
    /\ Running /\ live[i] /\ live[j]
    /\ Do(string_cat(Mach, i, j), Op("cat", i, j, 0, 0, << >>, << >>))
    /\ UNCHANGED live

StringLeft ==
  \E i \in StrIds, index \in Indexes :
    /\ Running /\ live[i]
    /\ Do(string_left(Mach, i, index), Op("left", i, 0, index, 0, << >>, << >>))
    /\ UNCHANGED live

StringRight ==
  \E i \in StrIds, index \in Indexes :
    /\ Running /\ live[i]
    /\ Do(string_right(Mach, i, index), Op("right", i, 0, index, 0, << >>, << >>))
    /\ UNCHANGED live

StringMid ==
  \E i \in StrIds, index \in { 1 }, size \in Indexes :
    /\ Running /\ live[i]
    /\ Do(string_mid(Mach, i, index, size), Op("mid", i, 0, index, size, << >>, << >>))
    /\ UNCHANGED live

StringStrim ==
  \E i \in StrIds, charac \in CharSets :
    /\ Running /\ live[i]
    /\ Do(string_strim(Mach, i, charac), Op("strim", i, 0, 0, 0, charac, << >>))
    /\ UNCHANGED live

StringReplaceStr ==
  \E i \in StrIds, str1 \in Patterns, str2 \in Replacements, start \in { 0 } :
    /\ Running /\ live[i]
    /\ start <= string_size(v[i])
    /\ Do(string_replace_str(Mach, i, str1, str2, start),
          Op("replace_str", i, 0, start, 0, str1, str2))
    /\ UNCHANGED live

StringReplaceAt ==
  \E i \in StrIds, pos \in { 1 }, len \in { 1 }, str2 \in Replacements :
    /\ Running /\ live[i]
    /\ pos + len <= string_size(v[i])
    /\ Do(string_replace_at(Mach, i, pos, len, str2),
          Op("replace_at", i, 0, pos, len, << >>, str2))
    /\ UNCHANGED live

Next ==
  \/ StringInit
  \/ StringClear
  \/ StringReset
  \/ StringReserve
  \/ StringSetStr
  \/ StringSetStrn
  \/ StringSet
  \/ StringSetN
  \/ StringInitMove
  \/ StringMove
  \/ StringSwap
  \/ StringPushBack
  \/ StringCatStr
  \/ StringCat
  \/ StringLeft
  \/ StringRight
  \/ StringMid
  \/ StringStrim
  \/ StringReplaceStr
  \/ StringReplaceAt

Spec == Init /\ [][Next]_vars

\* the operations of Spec and string_replace_all_str
StringReplaceAllStr ==
  \E i \in StrIds, str1 \in Patterns \cup { << 97 >> },
     str2 \in { << >>, << 98 >>, << 98, 97, 98 >> } :
    /\ Len(str1) = 1 <=> Len(str2) = 1
    /\ Running /\ live[i]
    /\ Do(string_replace_all_str(Mach, i, str1, str2),
          Op("replace_all_str", i, 0, 0, 0, str1, str2))
    /\ UNCHANGED live

\* the block returned is the caller's: given holds the blocks handed over;
\* last.b is the block and last.s1 the content of the string before
StringClearGetStr ==
  \E i \in StrIds :
    /\ Running /\ live[i]
    /\ \E R \in { string_clear_get_str(Mach, i) } :
         /\ v' = R.M.v
         /\ heap' = R.M.heap
         /\ ub' = R.M.ub
         /\ aborted' = R.M.aborted
         /\ given' = given \cup { R.p }
         /\ last' = Op("clear_get_str", i, 0, 0, R.p, Content(Mach, i), << >>)
    /\ steps' = steps + 1
    /\ live' = [live EXCEPT ![i] = FALSE]
    /\ UNCHANGED << charSigned, printHigh, variants >>

NextMem == Next \/ StringClearGetStr

SpecMem == Init /\ [][NextMem]_vars

NextAll == Next \/ StringReplaceAllStr

SpecAll == Init /\ [][NextAll]_vars

(***************************************************************************)
(* string_replace_all_str applied once to a string of bounded length       *)
(***************************************************************************)
MaxReplLen == 4
MaxPatLen == 2
MaxRepLen == 3

\* the byte strings over "ab" of length lo..hi
StrsOver(alphabet, lo, hi) == UNION { [1..n -> alphabet] : n \in lo..hi }

InitRepl ==
  \E str \in StrsOver({ 97, 98 }, 0, MaxReplLen),
     n \in { -1, SIZEOF_string_heap_ct + 1 } :
    /\ charSigned = TRUE
    /\ printHigh = FALSE
    /\ \E M \in { Build(NoMach, 1, str, n) } :
           /\ v = M.v
           /\ heap = M.heap
           /\ ub = M.ub
           /\ aborted = M.aborted
           /\ last = Start(M, str)
    /\ live = [i \in StrIds |-> i = 1]
    /\ steps = 0
    /\ given = { }
    /\ variants = NoVariants

ReplaceAllStr ==
  \E str1 \in StrsOver({ 97, 98 }, 1, MaxPatLen),
     str2 \in StrsOver({ 97, 98 }, 0, MaxRepLen) :
    /\ last.op = "start"
    /\ Do(string_replace_all_str(Mach, 1, str1, str2),
          Op("replace_all_str", 1, 0, 0, 0, str1, str2))
    /\ UNCHANGED live

NextRepl == ReplaceAllStr

SpecRepl == InitRepl /\ [][NextRepl]_vars

(***************************************************************************)
(* Quoted form: string_get_str and string_parse_str                        *)
(***************************************************************************)
RECURSIVE BitXor(_, _)
BitXor(a, b) ==
  IF a = 0 THEN b
  ELSE IF b = 0 THEN a
  ELSE (((a % 2) + (b % 2)) % 2) + 2 * BitXor(a \div 2, b \div 2)

\* (c ^ (c >> 5)) & 0x07 of an ASCII character
EscapeHash(c) == BitXor(c, c \div 32) % 8

\* the value of a char read from a buffer, as an int
CharToInt(b) == IF charSigned /\ b > CHAR_MAX THEN b - 2 * (CHAR_MAX + 1) ELSE b

\* (c >> k) & 0x07 of an int c in -128..255 (arithmetic shift, two's
\* complement)
ShiftAnd7(c, k) == ((c + 4 * (CHAR_MAX + 1)) \div (2 ^ k)) % 8

\* isprint(c) of a char c: the printable ASCII characters; above 127 the
\* answer depends on the locale when char is unsigned, and the call is
\* undefined when char is signed, but for -1 which is EOF
isprint(b) ==
  IF b <= CHAR_MAX THEN b >= 32 /\ b < CHAR_MAX
  ELSE IF charSigned /\ CharToInt(b) = -1 THEN FALSE
  ELSE printHigh

\* the short forms of string_get_str: " tn\" r\\"[(c ^ (c >>5)) & 0x07]
get_str_escape(c) == << 32, 116, 110, 34, 32, 114, 92, 0 >>[EscapeHash(c) + 1]

\* the four characters string_get_str writes for a non printable character,
\* least significant digit first
get_str_octal_lsb_first(b) ==
  LET c == CharToInt(b)
  IN  << 92, 48 + ShiftAnd7(c, 0), 48 + ShiftAnd7(c, 3), 48 + ShiftAnd7(c, 6) >>

\* the four characters string_get_str writes for a non printable character
get_str_octal(b) ==
  LET c == CharToInt(b)
  IN  << 92, 48 + ShiftAnd7(c, 6), 48 + ShiftAnd7(c, 3), 48 + ShiftAnd7(c, 0) >>

\* the loop of string_get_str over the characters of v2 = string j
RECURSIVE get_str_loop(_, _, _, _, _, _, _)
get_str_loop(M, i, j, k, v2_size, size, targetSize) ==
  IF k >= v2_size \/ M.aborted
  THEN [M |-> M, size |-> size]
  ELSE Then(Rd(M, j, k), LAMBDA c :
         IF c \in { 92, 34, 10, 9, 13 }
         THEN Then(m_str1ng_set_size(M, i, size), LAMBDA M1 :
                Then(m_str1ng_fit2size(M1, i, targetSize + 1), LAMBDA M2 :
                  Then(WrAt(M2, i, size, << 92, get_str_escape(c) >>), LAMBDA M3 :
                    get_str_loop(M3, i, j, k + 1, v2_size, size + 2,
                                 targetSize + 1))))
         ELSE IF ~isprint(c)
         THEN Then(m_str1ng_set_size(M, i, size), LAMBDA M1 :
                Then(m_str1ng_fit2size(M1, i, targetSize + 3), LAMBDA M2 :
                  Then(WrAt(M2, i, size, get_str_octal(c)), LAMBDA M3 :
                    get_str_loop(M3, i, j, k + 1, v2_size, size + 4,
                                 targetSize + 3))))
         ELSE Then(WrAt(M, i, size, << c >>), LAMBDA M1 :
                get_str_loop(M1, i, j, k + 1, v2_size, size + 1, targetSize)))

string_get_str(M, i, j, append) ==
  LET size == IF append THEN string_size(M.v[i]) ELSE 0
      v2_size == string_size(M.v[j])
      targetSize == size + v2_size + 3
  IN  AfterFit(m_str1ng_fit2size(M, i, targetSize), LAMBDA M0 :
        Then(WrAt(M0, i, size, << 34 >>), LAMBDA M1 :
          Then(get_str_loop(M1, i, j, 0, v2_size, size + 1, targetSize), LAMBDA L :
            IF L.M.aborted THEN L.M
            ELSE Then(WrAt(L.M, i, L.size, << 34, 0 >>), LAMBDA M2 :
                   m_str1ng_set_size(M2, i, L.size + 1)))))

\* the character at str[pos] of the C string str: its bytes, then the
\* terminator, then bytes that are not the string's
ParseChar(str, pos) ==
  IF pos < Len(str) THEN str[pos + 1] ELSE IF pos = Len(str) THEN 0 ELSE U

IsOctal(c) == c >= 48 /\ c <= 55

\* the short forms of string_parse_str: " \r \" \n\\\t"[(c^(c>>5))& 0x07]
parse_str_escape(c) == << 32, 13, 32, 34, 32, 10, 92, 9, 0 >>[EscapeHash(c) + 1]

\* the loop of string_parse_str: c is the character read last, pos the
\* offset of the next one
RECURSIVE parse_str_loop(_, _, _, _, _)
parse_str_loop(M, i, str, pos, c) ==
  IF c = 34 \/ c = 0 THEN [M |-> M, pos |-> pos, success |-> (c = 34)]
  ELSE IF c = 92
  THEN LET e == ParseChar(str, pos)
           d2 == ParseChar(str, pos + 1)
           d3 == ParseChar(str, pos + 2)
       IN  IF e \in { 110, 116, 114, 92, 34 }
           THEN Then(string_push_back(M, i, parse_str_escape(e)), LAMBDA M1 :
                  parse_str_loop(M1, i, str, pos + 2, ParseChar(str, pos + 1)))
           ELSE IF ~IsOctal(e) THEN [M |-> M, pos |-> pos + 1, success |-> FALSE]
           ELSE IF ~IsOctal(d2) THEN [M |-> M, pos |-> pos + 2, success |-> FALSE]
           ELSE IF ~IsOctal(d3) THEN [M |-> M, pos |-> pos + 3, success |-> FALSE]
           ELSE Then(string_push_back(M, i,
                       ((e - 48) * 64 + (d2 - 48) * 8 + (d3 - 48)) % 256),
                     LAMBDA M1 :
                       parse_str_loop(M1, i, str, pos + 4, ParseChar(str, pos + 3)))
  ELSE Then(string_push_back(M, i, c), LAMBDA M1 :
         parse_str_loop(M1, i, str, pos + 1, ParseChar(str, pos)))

\* string_parse_str that appends to the content of the target
string_parse_str_noreset(M, i, str) ==
  IF ParseChar(str, 0) # 34
  THEN [M |-> M, pos |-> 1, success |-> FALSE]
  ELSE parse_str_loop(M, i, str, 2, ParseChar(str, 1))

\* the string, the value returned and *endptr as an offset in str
string_parse_str(M, i, str) ==
  IF ParseChar(str, 0) # 34
  THEN [M |-> M, pos |-> 1, success |-> FALSE]
  ELSE Then(string_reset(M, i), LAMBDA M1 :
         parse_str_loop(M1, i, str, 2, ParseChar(str, 1)))

MaxCodecLen == 2

\* quote, backslash, newline, tab, carriage return, 'a', '7', two control
\* characters and two bytes above 127
CodecBytes == { 34, 92, 10, 9, 13, 97, 55, 1, CHAR_MAX, CHAR_MAX + 1, 2 * CHAR_MAX + 1 }

\* strings whose quoted form does not fit the inline buffer
CodecLong ==
  { << 1, 34, CHAR_MAX + 1, 97, 2 * CHAR_MAX + 1 >>,
    << 92, 10, 9, 13, 34, 1, CHAR_MAX, 55 >> }

InitCodec ==
  \E str \in StrsOver(CodecBytes, 0, MaxCodecLen) \cup CodecLong,
     cs \in BOOLEAN, ph \in BOOLEAN :
    /\ charSigned = cs
    /\ printHigh = ph
    /\ \E M \in { string_init(Build(NoMach, 1, str, -1), 2) } :
           /\ v = M.v
           /\ heap = M.heap
           /\ ub = M.ub
           /\ aborted = M.aborted
           /\ last = Start(M, str)
    /\ live = [i \in StrIds |-> TRUE]
    /\ steps = 0
    /\ given = { }
    /\ variants = NoVariants

GetStr ==
  /\ last.op = "start"
  /\ Do(string_get_str(Mach, 2, 1, FALSE),
        Op("get_str", 2, 1, 0, 0, last.s1, << >>))
  /\ UNCHANGED live

ParseStr ==
  /\ last.op = "get_str"
  /\ \E str \in { CStrAt(Mach, 2, 0) } :
       \E R \in { string_parse_str(Mach, 1, str) } :
         Do(R.M, [Op("parse_str", 1, 2, R.pos, 0, last.s1, str)
                    EXCEPT !.ret = R.success])
  /\ UNCHANGED live

\* the characters string_out_str writes to the file for the characters of
\* string i from offset k on
RECURSIVE out_str_loop(_, _, _, _)
out_str_loop(M, i, k, size) ==
  IF k >= size THEN << >>
  ELSE Then(Rd(M, i, k), LAMBDA c :
         (IF c \in { 92, 34, 10, 9, 13 } THEN << 92, get_str_escape(c) >>
          ELSE IF ~isprint(c) THEN get_str_octal(c)
          ELSE << c >>) \o out_str_loop(M, i, k + 1, size))

\* the characters written to the file
string_out_str(M, i) ==
  << 34 >> \o out_str_loop(M, i, 0, string_size(M.v[i])) \o << 34 >>

\* last.s2 is what the file received
OutStr ==
  /\ last.op = "start"
  /\ Do(Mach, Op("out_str", 1, 0, 0, 0, last.s1, string_out_str(Mach, 1)))
  /\ UNCHANGED live

NextCodec == GetStr \/ ParseStr \/ OutStr

SpecCodec == InitCodec /\ [][NextCodec]_vars

(***************************************************************************)
(* UTF-8 validation                                                        *)
(***************************************************************************)
RECURSIVE BitOr(_, _)
BitOr(a, b) ==
  IF a = 0 THEN b
  ELSE IF b = 0 THEN a
  ELSE (IF (a % 2) + (b % 2) > 0 THEN 1 ELSE 0) + 2 * BitOr(a \div 2, b \div 2)

M_STRING_UTF8_STARTING == 0
M_STRING_UTF8_ERROR == 32

\* the number of zero bits above the highest one bit of a 32-bit word, 32
\* for the word 0
RECURSIVE m_core_clz32(_)
m_core_clz32(limb) ==
  IF limb = 0 THEN 32 ELSE m_core_clz32(limb \div 2) - 1

\* the characters of the string literal, its terminator included
M_STRING_UTF8_STATE_TAB ==
  <<  0, 32,  8, 16, 24, 32, 32, 32,
     32,  0, 32, 32, 32, 32, 32, 32,
     32,  8, 32, 32, 32, 32, 32, 32,
     32, 16, 32, 32, 32, 32, 32, 32,
     32, 32, 32, 32, 32, 32, 32, 32,
      0 >>

\* the state and the unicode value after the character c
m_str1ng_utf8_decode(c, state, unicode) ==
  LET type == m_core_clz32(2 * CHAR_MAX + 1 - c) - 24
      shifted == IF state # M_STRING_UTF8_STARTING
                 THEN (unicode % (2 ^ 26)) * 64 ELSE 0
      low == c % (2 ^ (8 - type))
  IN  [state |-> M_STRING_UTF8_STATE_TAB[state + type + 1],
       unicode |-> BitOr(shifted, low)]

\* the loop of m_str1ng_utf8_valid_str_p from offset k of the C string str
RECURSIVE utf8_valid_loop(_, _, _, _)
utf8_valid_loop(str, k, s, u) ==
  IF ParseChar(str, k) = 0 THEN TRUE
  ELSE Then(m_str1ng_utf8_decode(ParseChar(str, k), s, u), LAMBDA d :
         IF \/ d.state = M_STRING_UTF8_ERROR
            \/ /\ d.state = M_STRING_UTF8_STARTING
               /\ \/ d.unicode > 1114111
                  \/ (d.unicode >= 55296 /\ d.unicode <= 57343)
         THEN FALSE
         ELSE utf8_valid_loop(str, k + 1, d.state, d.unicode))

m_str1ng_utf8_valid_str_p(str) ==
  utf8_valid_loop(str, 0, M_STRING_UTF8_STARTING, 0)

string_utf8_p(M, i) == m_str1ng_utf8_valid_str_p(CStrAt(M, i, 0))

MaxUtf8Len == 4

\* 'a', the continuation bytes 80 90 A0 BF, the leads C3 ED F4 of 2, 3 and 4
\* bytes, and FF
Utf8Bytes == { 97, 128, 144, 160, 191, 195, 237, 244, 255 }

InitUtf8 ==
  \E str \in StrsOver(Utf8Bytes, 0, MaxUtf8Len) :
    /\ charSigned = TRUE
    /\ printHigh = FALSE
    /\ \E M \in { Build(NoMach, 1, str, -1) } :
           /\ v = M.v
           /\ heap = M.heap
           /\ ub = M.ub
           /\ aborted = M.aborted
           /\ last = Start(M, str)
    /\ live = [i \in StrIds |-> i = 1]
    /\ steps = 0
    /\ given = { }
    /\ variants = NoVariants

Utf8P ==
  /\ last.op = "start"
  /\ Do(Mach, [Op("utf8_p", 1, 0, 0, 0, last.s1, << >>)
                 EXCEPT !.ret = string_utf8_p(Mach, 1)])
  /\ UNCHANGED live

NextUtf8 == Utf8P

SpecUtf8 == InitUtf8 /\ [][NextUtf8]_vars

(***************************************************************************)
(* string_push_back repeated on an empty string                            *)
(***************************************************************************)
MaxPush == 40

\* the bytes pushed: 'a', 'b' and a byte above 127
PushBytes == { 97, 98, 2 * CHAR_MAX - 1 }

\* last.s2 is the pair of bytes pushed in turn, last.s1 the bytes pushed so
\* far, last.a their number, last.b the number of reallocations
InitPush ==
  \E c0 \in PushBytes, c1 \in PushBytes :
    /\ charSigned = TRUE
    /\ printHigh = FALSE
    /\ \E M \in { string_init(NoMach, 1) } :
           /\ v = M.v
           /\ heap = M.heap
           /\ ub = M.ub
           /\ aborted = M.aborted
           /\ last = [Start(M, << >>) EXCEPT !.s2 = << c0, c1 >>]
    /\ live = [i \in StrIds |-> i = 1]
    /\ steps = 0
    /\ given = { }
    /\ variants = NoVariants

PushBack ==
  /\ last.op \in { "start", "push" }
  /\ last.a < MaxPush
  /\ ~ub /\ ~aborted
  /\ \E c \in { last.s2[(last.a % 2) + 1] } :
       \E R \in { string_push_back(Mach, 1, c) } :
         Do(R, Op("push", 1, 0, last.a + 1,
                  last.b + (IF R.v[1].ptr # v[1].ptr
                               \/ string_capacity(R.v[1]) # string_capacity(v[1])
                            THEN 1 ELSE 0),
                  last.s1 \o << c >>, last.s2))
  /\ UNCHANGED live

NextPush == PushBack

SpecPush == InitPush /\ [][NextPush]_vars

(***************************************************************************)
(* string_left, string_right, string_mid applied once                      *)
(***************************************************************************)
MaxSubLen == 3

\* every index up to one past the longest short content, and two indexes
\* beyond every size
SubIndexes == 0..(MaxSubLen + 1) \cup { 2 * SIZEOF_string_heap_ct, Huge }

InitSub ==
  \E str \in StrsOver({ 97, 98 }, 0, MaxSubLen) \cup { Long },
     n \in { -1, SIZEOF_string_heap_ct + 1 } :
    /\ charSigned = TRUE
    /\ printHigh = FALSE
    /\ \E M \in { Build(NoMach, 1, str, n) } :
           /\ v = M.v
           /\ heap = M.heap
           /\ ub = M.ub
           /\ aborted = M.aborted
           /\ last = Start(M, str)
    /\ live = [i \in StrIds |-> i = 1]
    /\ steps = 0
    /\ given = { }
    /\ variants = NoVariants

SubLeft ==
  \E index \in SubIndexes :
    /\ last.op = "start"
    /\ Do(string_left(Mach, 1, index), Op("left", 1, 0, index, 0, last.s1, << >>))
    /\ UNCHANGED live

SubRight ==
  \E index \in SubIndexes :
    /\ last.op = "start"
    /\ Do(string_right(Mach, 1, index), Op("right", 1, 0, index, 0, last.s1, << >>))
    /\ UNCHANGED live

SubMid ==
  \E index \in SubIndexes, size \in SubIndexes :
    /\ last.op = "start"
    /\ Do(string_mid(Mach, 1, index, size),
          Op("mid", 1, 0, index, size, last.s1, << >>))
    /\ UNCHANGED live

NextSub == SubLeft \/ SubRight \/ SubMid

SpecSub == InitSub /\ [][NextSub]_vars

(***************************************************************************)
(* Search                                                                  *)
(***************************************************************************)
\* strchr(str, c) as an offset in the C string str, -1 for NULL: the
\* terminator is part of the string searched
StrChr(str, c) ==
  IF \E k \in 1..Len(str) : str[k] = c
  THEN (CHOOSE k \in 1..Len(str) :
          str[k] = c /\ \A n \in 1..(k - 1) : str[n] # c) - 1
  ELSE IF c = 0 THEN Len(str) ELSE -1

\* strrchr(str, c)
StrRChr(str, c) ==
  IF c = 0 THEN Len(str)
  ELSE IF \E k \in 1..Len(str) : str[k] = c
  THEN (CHOOSE k \in 1..Len(str) :
          str[k] = c /\ \A n \in (k + 1)..Len(str) : str[n] # c) - 1
  ELSE -1

\* strpbrk(str, accept)
StrPBrk(str, accept) ==
  LET In(b) == \E n \in 1..Len(accept) : accept[n] = b
  IN  IF \E k \in 1..Len(str) : In(str[k])
      THEN (CHOOSE k \in 1..Len(str) :
              In(str[k]) /\ \A n \in 1..(k - 1) : ~In(str[n])) - 1
      ELSE -1

string_search_char(M, i, c, start) ==
  Then(StrChr(CStrAt(M, i, start), c), LAMBDA p :
    IF p = -1 THEN STRING_FAILURE ELSE p + start)

string_search_rchar(M, i, c, start) ==
  Then(StrRChr(CStrAt(M, i, start), c), LAMBDA p :
    IF p = -1 THEN STRING_FAILURE ELSE p + start)

string_search(M, i, j, start) ==
  string_search_str(M, i, CStrAt(M, j, 0), start)

string_search_pbrk(M, i, first_of, start) ==
  Then(StrPBrk(CStrAt(M, i, start), first_of), LAMBDA p :
    IF p = -1 THEN STRING_FAILURE ELSE p + start)

MaxSearchLen == 3
MaxNeedleLen == 2

\* the characters searched: the terminator, 'a', 'b' and 'c'
SearchChars == { 0, 97, 98, 99 }

\* string 1 is searched, string 2 is the second argument of string_search
InitSearch ==
  \E str \in StrsOver({ 97, 98 }, 0, MaxSearchLen),
     n \in { -1, SIZEOF_string_heap_ct + 1 },
     str2 \in StrsOver({ 97, 98 }, 0, MaxNeedleLen) :
    /\ charSigned = TRUE
    /\ printHigh = FALSE
    /\ \E M \in { Build(Build(NoMach, 1, str, n), 2, str2, -1) } :
           /\ v = M.v
           /\ heap = M.heap
           /\ ub = M.ub
           /\ aborted = M.aborted
           /\ last = Start(M, str)
    /\ live = [i \in StrIds |-> TRUE]
    /\ steps = 0
    /\ given = { }
    /\ variants = NoVariants

\* a search leaves the strings as they are; last.a is start, last.b the
\* offset returned
Searched(name, needle, start, result) ==
  /\ last.op = "start"
  /\ Do(Mach, Op(name, 1, 0, start, result, needle, last.s1))
  /\ UNCHANGED live

SearchChar ==
  \E c \in SearchChars, start \in 0..string_size(v[1]) :
    Searched("search_char", << c >>, start, string_search_char(Mach, 1, c, start))

SearchRChar ==
  \E c \in SearchChars, start \in 0..string_size(v[1]) :
    Searched("search_rchar", << c >>, start, string_search_rchar(Mach, 1, c, start))

SearchStr ==
  \E str \in StrsOver({ 97, 98 }, 0, MaxNeedleLen), start \in 0..string_size(v[1]) :
    Searched("search_str", str, start, string_search_str(Mach, 1, str, start))

Search ==
  \E start \in 0..string_size(v[1]) :
    Searched("search", Content(Mach, 2), start, string_search(Mach, 1, 2, start))

SearchPbrk ==
  \E first_of \in StrsOver({ 98, 99 }, 0, MaxNeedleLen),
     start \in 0..string_size(v[1]) :
    Searched("search_pbrk", first_of, start,
             string_search_pbrk(Mach, 1, first_of, start))

NextSearch == SearchChar \/ SearchRChar \/ SearchStr \/ Search \/ SearchPbrk

SpecSearch == InitSearch /\ [][NextSearch]_vars

(***************************************************************************)
(* string_replace_at applied once                                          *)
(***************************************************************************)
MaxAtLen == 3
MaxAtRepLen == 2

\* the longest inline content
Inline14 == SubSeq(Long, 1, SIZEOF_string_heap_ct - 2)

InitAt ==
  \E str \in StrsOver({ 97, 98 }, 0, MaxAtLen) \cup { Inline14, Long },
     n \in { -1, SIZEOF_string_heap_ct + 1 } :
    /\ charSigned = TRUE
    /\ printHigh = FALSE
    /\ \E M \in { Build(NoMach, 1, str, n) } :
           /\ v = M.v
           /\ heap = M.heap
           /\ ub = M.ub
           /\ aborted = M.aborted
           /\ last = Start(M, str)
    /\ live = [i \in StrIds |-> i = 1]
    /\ steps = 0
    /\ given = { }
    /\ variants = NoVariants

ReplaceAt ==
  \E pos \in 0..string_size(v[1]), len \in 0..string_size(v[1]),
     str2 \in StrsOver({ 99 }, 0, MaxAtRepLen) \cup { Long } :
    /\ last.op = "start"
    /\ pos + len <= string_size(v[1])
    /\ Do(string_replace_at(Mach, 1, pos, len, str2),
          Op("replace_at", 1, 0, pos, len, last.s1, str2))
    /\ UNCHANGED live

NextAt == ReplaceAt

SpecAt == InitAt /\ [][NextAt]_vars

(***************************************************************************)
(* string_strim applied once and a second time                             *)
(***************************************************************************)
MaxTrimLen == 5

\* the sets of characters removed: none, space, space and 'a', every byte
\* of the strings
TrimSets == { << >>, << 32 >>, << 32, 97 >>, << 98, 32, 97 >> }

InitTrim ==
  \E str \in StrsOver({ 32, 97, 98 }, 0, MaxTrimLen),
     n \in { -1, SIZEOF_string_heap_ct + 1 } :
    /\ charSigned = TRUE
    /\ printHigh = FALSE
    /\ \E M \in { Build(NoMach, 1, str, n) } :
           /\ v = M.v
           /\ heap = M.heap
           /\ ub = M.ub
           /\ aborted = M.aborted
           /\ last = Start(M, str)
    /\ live = [i \in StrIds |-> i = 1]
    /\ steps = 0
    /\ given = { }
    /\ variants = NoVariants

\* last.s1 is the first content, last.s2 the set of characters, last.a the
\* number of calls made with it
Strim ==
  \E charac \in TrimSets :
    /\ \/ last.op = "start"
       \/ last.op = "strim" /\ last.a = 1 /\ charac = last.s2
    /\ Do(string_strim(Mach, 1, charac),
          Op("strim", 1, 0, last.a + 1, 0, last.s1, charac))
    /\ UNCHANGED live

NextTrim == Strim

SpecTrim == InitTrim /\ [][NextTrim]_vars

(***************************************************************************)
(* string_parse_str and string_in_str on arbitrary input                   *)
(***************************************************************************)
EOF == -1

\* fgetc at offset pos of the bytes f of a file
FGetC(f, pos) == IF pos < Len(f) THEN f[pos + 1] ELSE EOF

\* the loop of string_in_str: c is the character read last, pos the offset
\* of the next one
RECURSIVE in_str_loop(_, _, _, _, _)
in_str_loop(M, i, f, pos, c) ==
  IF c = 34 \/ c = EOF THEN [M |-> M, pos |-> pos, success |-> (c = 34)]
  ELSE IF c = 92
  THEN LET e == FGetC(f, pos)
           d2 == FGetC(f, pos + 1)
           d3 == FGetC(f, pos + 2)
       IN  IF e \in { 110, 116, 114, 92, 34 }
           THEN Then(string_push_back(M, i, parse_str_escape(e)), LAMBDA M1 :
                  in_str_loop(M1, i, f, pos + 2, FGetC(f, pos + 1)))
           ELSE IF ~IsOctal(e) THEN [M |-> M, pos |-> pos + 1, success |-> FALSE]
           ELSE IF ~IsOctal(d2) THEN [M |-> M, pos |-> pos + 2, success |-> FALSE]
           ELSE IF ~IsOctal(d3) THEN [M |-> M, pos |-> pos + 3, success |-> FALSE]
           ELSE Then(string_push_back(M, i,
                       ((e - 48) * 64 + (d2 - 48) * 8 + (d3 - 48)) % 256),
                     LAMBDA M1 :
                       in_str_loop(M1, i, f, pos + 4, FGetC(f, pos + 3)))
  ELSE Then(string_push_back(M, i, c), LAMBDA M1 :
         in_str_loop(M1, i, f, pos + 1, FGetC(f, pos)))

\* the string, the value returned and the number of calls of fgetc
string_in_str(M, i, f) ==
  IF FGetC(f, 0) # 34
  THEN [M |-> M, pos |-> 1, success |-> FALSE]
  ELSE Then(string_reset(M, i), LAMBDA M1 :
         in_str_loop(M1, i, f, 2, FGetC(f, 1)))

MaxParseLen == 6

\* quote, backslash, 'n' (an escape letter and a plain character), '7' (an
\* octal digit and a plain character) and the NUL byte
ParseBytes == { 34, 92, 110, 55, 0 }

\* the C string at the start of the bytes str
CStrOf(str) ==
  IF StrChr(str, 0) = Len(str) THEN str ELSE SubSeq(str, 1, StrChr(str, 0))

\* string 1 is the target and holds "nn"; last.s1 is the input
InitParse ==
  \E input \in StrsOver(ParseBytes, 0, MaxParseLen) :
    /\ charSigned = TRUE
    /\ printHigh = FALSE
    /\ \E M \in { Build(NoMach, 1, << 110, 110 >>, -1) } :
           /\ v = M.v
           /\ heap = M.heap
           /\ ub = M.ub
           /\ aborted = M.aborted
           /\ last = Start(M, input)
    /\ live = [i \in StrIds |-> i = 1]
    /\ steps = 0
    /\ given = { }
    /\ variants = NoVariants

\* string_parse_str reads the C string at the start of the input
ParseInput ==
  /\ last.op = "start"
  /\ \E R \in { string_parse_str(Mach, 1, CStrOf(last.s1)) } :
       Do(R.M, [Op("parse_str", 1, 0, R.pos, 0, CStrOf(last.s1), << >>)
                  EXCEPT !.ret = R.success])
  /\ UNCHANGED live

\* string_in_str reads a file that holds the input
InStr ==
  /\ last.op = "start"
  /\ \E R \in { string_in_str(Mach, 1, last.s1) } :
       Do(R.M, [Op("in_str", 1, 0, R.pos, 0, last.s1, << >>)
                  EXCEPT !.ret = R.success])
  /\ UNCHANGED live

NextParse == ParseInput \/ InStr

SpecParse == InitParse /\ [][NextParse]_vars

(***************************************************************************)
(* UTF-8 iterator and string_push_u                                        *)
(***************************************************************************)
\* UINT_MAX, as the 32-bit pattern read in two's complement
STRING_UNICODE_ERROR == -1

\* an encoder without the 4-byte form
m_str1ng_utf8_encode_bmp(u) ==
  IF u <= 127 THEN << u % 256, 0 >>
  ELSE IF u <= 2047
  THEN << BitOr(192, u \div 64) % 256, BitOr(128, u % 64), 0 >>
  ELSE << BitOr(224, u \div 4096) % 256, BitOr(128, (u \div 64) % 64),
          BitOr(128, u % 64), 0 >>

\* the five bytes of buffer that m_str1ng_utf8_encode sets, up to the
\* terminator; for UINT_MAX the bytes are those of the last branch:
\* (char)(0xF0 | 0x3FFF), then 0x80 | 0x3F three times
m_str1ng_utf8_encode(u) ==
  IF u = STRING_UNICODE_ERROR
  THEN << 2 * CHAR_MAX + 1, CHAR_MAX + 64, CHAR_MAX + 64, CHAR_MAX + 64, 0 >>
  ELSE IF u <= 127 THEN << u % 256, 0 >>
  ELSE IF u <= 2047
  THEN << BitOr(192, u \div 64) % 256, BitOr(128, u % 64), 0 >>
  ELSE IF u <= 65535
  THEN << BitOr(224, u \div 4096) % 256, BitOr(128, (u \div 64) % 64),
          BitOr(128, u % 64), 0 >>
  ELSE << BitOr(240, u \div 262144) % 256, BitOr(128, (u \div 4096) % 64),
          BitOr(128, (u \div 64) % 64), BitOr(128, u % 64), 0 >>

string_push_u(M, i, u) ==
  string_cat_str(M, i, CStrOf(m_str1ng_utf8_encode(u)))

\* the iterator set at the start of string i: pointers are offsets from
\* the start of its buffer
string_it(M, i) == [u |-> 0, ptr |-> 0, next_ptr |-> 0]

\* the decoder run from offset k: the do-while loop of string_end_p
RECURSIVE end_p_loop(_, _, _, _, _)
end_p_loop(M, i, k, state, u) ==
  Then(m_str1ng_utf8_decode(Rd(M, i, k), state, u), LAMBDA d :
    IF /\ d.state # M_STRING_UTF8_STARTING
       /\ d.state # M_STRING_UTF8_ERROR
       /\ Rd(M, i, k + 1) # 0
    THEN end_p_loop(M, i, k + 1, d.state, d.unicode)
    ELSE [str |-> k + 1, state |-> d.state, u |-> d.unicode])

\* the value returned and the iterator
string_end_p(M, i, it) ==
  IF Rd(M, i, it.ptr) = 0 THEN [ret |-> TRUE, it |-> it]
  ELSE Then(end_p_loop(M, i, it.ptr, M_STRING_UTF8_STARTING, 0), LAMBDA L :
         [ret |-> FALSE,
          it |-> [ptr |-> it.ptr, next_ptr |-> L.str,
                  u |-> IF L.state = M_STRING_UTF8_ERROR
                        THEN STRING_UNICODE_ERROR ELSE L.u]])

\* string_next that leaves the iterator where it is
string_next_stay(it) == it

string_next(it) == [it EXCEPT !.ptr = it.next_ptr]

string_get_cref(it) == it.u

MaxIterLen == 4

\* 'A', the leads C3 E2 F0 of 2, 3 and 4 bytes, the continuation bytes 82
\* and 9F, and FF
IterBytes == { 65, 195, 226, 240, 130, 159, 2 * CHAR_MAX + 1 }

\* string 1 is iterated, string 2 is empty and receives the code points
InitIter ==
  \E str \in StrsOver(IterBytes, 0, MaxIterLen) :
    /\ charSigned = TRUE
    /\ printHigh = FALSE
    /\ \E M \in { string_init(Build(NoMach, 1, str, -1), 2) } :
           /\ v = M.v
           /\ heap = M.heap
           /\ ub = M.ub
           /\ aborted = M.aborted
           /\ last = Start(M, str)
    /\ live = [i \in StrIds |-> TRUE]
    /\ steps = 0
    /\ given = { }
    /\ variants = NoVariants

StringIt ==
  /\ last.op = "start"
  /\ Do(Mach, [Op("it", 1, 2, 0, 0, last.s1, << >>)
                 EXCEPT !.it = string_it(Mach, 1)])
  /\ UNCHANGED live

\* one turn of the loop: string_end_p is false, the code point of
\* string_get_cref is pushed, string_next; last.a is the position visited
\* and last.it the iterator after string_next, its u still the one reported
ItStep ==
  /\ last.op \in { "it", "it_step" }
  /\ \E E \in { string_end_p(Mach, 1, last.it) } :
       /\ ~E.ret
       /\ Do(string_push_u(Mach, 2, string_get_cref(E.it)),
             [Op("it_step", 1, 2, E.it.ptr, 0, last.s1, << >>)
                EXCEPT !.it = string_next(E.it)])
  /\ UNCHANGED live

\* string_end_p is true: the loop ends
ItEnd ==
  /\ last.op \in { "it", "it_step" }
  /\ \E E \in { string_end_p(Mach, 1, last.it) } :
       /\ E.ret
       /\ Do(Mach, [Op("it_end", 1, 2, E.it.ptr, 0, last.s1, << >>)
                      EXCEPT !.it = E.it, !.ret = TRUE])
  /\ UNCHANGED live

NextIter == StringIt \/ ItStep \/ ItEnd

SpecIter == InitIter /\ [][NextIter]_vars

\* the loop is run until it ends: no step of it is postponed for ever
SpecIterLive == SpecIter /\ WF_vars(NextIter)

(***************************************************************************)
(* string_fgets                                                            *)
(***************************************************************************)
STRING_READ_LINE == 0
STRING_READ_PURE_LINE == 1
STRING_READ_FILE == 2

\* a stream: its bytes, the read position and the end-of-file indicator
File(data, pos, eof) == [data |-> data, pos |-> pos, eof |-> eof]

\* the offset of the first newline of S, Len(S) when it has none
LineEnd(S) == IF StrChr(S, 10) < 0 THEN Len(S) ELSE StrChr(S, 10)

\* fgets(s, n, f) of the C library: at most n - 1 bytes up to and with the
\* first newline, then a terminator; NULL at end of file when no byte was
\* read.  With n = 1 glibc and musl store the terminator and return s
\* without touching the stream.
FGetS(f, n) ==
  LET avail == SubSeq(f.data, f.pos + 1, Len(f.data))
      nl == LineEnd(avail)
      cnt == IF nl < Len(avail) /\ nl + 1 <= n - 1 THEN nl + 1
             ELSE Min(n - 1, Len(avail))
      hitEnd == cnt = Len(avail) /\ cnt < n - 1
                 /\ ~(nl < Len(avail) /\ nl + 1 = cnt)
  IN  IF n <= 1 THEN [null |-> n < 1, bytes |-> << 0 >>, f |-> f]
      ELSE IF Len(avail) = 0
      THEN [null |-> TRUE, bytes |-> << >>, f |-> [f EXCEPT !.eof = TRUE]]
      ELSE [null |-> FALSE, bytes |-> SubSeq(avail, 1, cnt) \o << 0 >>,
            f |-> [f EXCEPT !.pos = f.pos + cnt, !.eof = f.eof \/ hitEnd]]

\* the while loop of string_fgets.  loops: the loop came back to the state
\* it started a turn with and never leaves.  ndebug: assert is compiled
\* out, and ptr[size-1] with size = 0 reads before the buffer.
RECURSIVE fgets_loop(_, _, _, _, _, _, _, _)
fgets_loop(M, i, f, size, alloc, retcode, arg, ndebug) ==
  Then(FGetS(f, alloc - size), LAMBDA G :
    IF G.null
    THEN [M |-> m_str1ng_set_size(M, i, size), f |-> G.f, ret |-> retcode,
          loops |-> FALSE]
    ELSE Then(WrAt(M, i, size, G.bytes), LAMBDA M1 :
           Then(size + Len(CStrOf(G.bytes)), LAMBDA size1 :
             IF size1 < 1
             THEN [M |-> IF ndebug THEN [M1 EXCEPT !.ub = TRUE]
                         ELSE [M1 EXCEPT !.aborted = TRUE],
                   f |-> G.f, ret |-> TRUE, loops |-> FALSE]
             ELSE IF arg # STRING_READ_FILE /\ Rd(M1, i, size1 - 1) = 10
             THEN [M |-> IF arg = STRING_READ_PURE_LINE
                         THEN m_str1ng_set_size(WrAt(M1, i, size1 - 1, << 0 >>),
                                                i, size1 - 1)
                         ELSE m_str1ng_set_size(M1, i, size1),
                   f |-> G.f, ret |-> TRUE, loops |-> FALSE]
             ELSE IF Rd(M1, i, size1 - 1) # 10 /\ ~G.f.eof
             THEN Then(m_str1ng_fit2size(M1, i, alloc + alloc \div 2),
                       LAMBDA M2 :
                    IF M2.aborted
                    THEN [M |-> M2, f |-> G.f, ret |-> TRUE, loops |-> FALSE]
                    ELSE fgets_loop(M2, i, G.f, size1,
                                    string_capacity(M2.v[i]), TRUE, arg,
                                    ndebug))
             ELSE IF alloc - size = 1
             THEN [M |-> M1, f |-> G.f, ret |-> TRUE, loops |-> TRUE]
             ELSE fgets_loop(M1, i, G.f, size1, alloc, TRUE, arg, ndebug))))

string_fgets(M, i, f, arg, ndebug) ==
  Then(m_str1ng_fit2size(M, i, 100), LAMBDA M1 :
    IF M1.aborted
    THEN [M |-> M1, f |-> f, ret |-> FALSE, loops |-> FALSE]
    ELSE fgets_loop(WrAt(M1, i, 0, << 0 >>), i, f, 0,
                    string_capacity(M1.v[i]), FALSE, arg, ndebug))

MaxGetsLen == 3

\* 'a', line feed, carriage return and the null character
GetsBytes == { 97, 10, 13, 0 }

\* the number of 'a' that leaves two bytes in the buffer string_fgets
\* gives an empty string
GetsPad ==
  string_capacity(m_str1ng_fit2size(string_init(NoMach, 1), 1, 100).v[1]) - 2

\* string 1 holds "zz"; last.s1 is the stream, unread: a run of 'a',
\* empty or nearly as long as the buffer, then a few bytes
InitGets ==
  /\ charSigned = TRUE
  /\ printHigh = FALSE
  /\ \E tail \in StrsOver(GetsBytes, 0, MaxGetsLen), pad \in { 0, GetsPad } :
    /\ \E M \in { Build(NoMach, 1, << 122, 122 >>, -1) } :
           /\ v = M.v
           /\ heap = M.heap
           /\ ub = M.ub
           /\ aborted = M.aborted
           /\ last = Start(M, [k \in 1..pad |-> 97] \o tail)
    /\ live = [i \in StrIds |-> i = 1]
    /\ steps = 0
    /\ given = { }
    /\ variants = NoVariants

\* one call on the stream where the call before left it.  last.a is the
\* position before the call, last.b the position after, last.j the
\* end-of-file indicator, last.i the mode; the operation is "fgets_loops"
\* when the call does not return
FGets ==
  /\ last.op \in { "start", "fgets" }
  /\ Running
  /\ \E arg \in { STRING_READ_LINE, STRING_READ_PURE_LINE, STRING_READ_FILE },
        ndebug \in BOOLEAN :
       \E G \in { string_fgets(Mach, 1, File(last.s1, last.b, last.j = 1),
                               arg, ndebug) } :
         Do(G.M, [Op(IF G.loops THEN "fgets_loops" ELSE "fgets", arg,
                     IF G.f.eof THEN 1 ELSE 0, last.b, G.f.pos, last.s1,
                     << >>)
                    EXCEPT !.ret = G.ret])
  /\ UNCHANGED live

NextGets == FGets

SpecGets == InitGets /\ [][NextGets]_vars

(***************************************************************************)
(* Out-of-range values and string_equal_p                                  *)
(***************************************************************************)
\* the bytes of ~(size_t)n in the alloc field, for n in {0, 1}
OorAlloc(n) ==
  << 2 * CHAR_MAX + 1 - n >> \o [k \in 1..7 |-> 2 * CHAR_MAX + 1]

string_oor_set(M, i, n) ==
  [M EXCEPT !.v[i] = [ptr |-> 0,
                      u |-> SubSeq(M.v[i].u, 1, 8) \o OorAlloc(n)]]

string_oor_equal_p(M, i, n) ==
  M.v[i].ptr = 0 /\ SubSeq(M.v[i].u, 9, 16) = OorAlloc(n)

\* the conditions M_STR1NG_CONTRACT asserts
M_STR1NG_CONTRACT(M, i) ==
  /\ Rd(M, i, string_size(M.v[i])) = 0
  /\ string_size(M.v[i]) < string_capacity(M.v[i])
  /\ (string_capacity(M.v[i]) < SIZEOF_string_heap_ct
        \/ ~m_str1ng_stack_p(M.v[i]))

\* string_cmp(v1, v2) == 0.  A contract that does not hold aborts the
\* program; when the assertions are compiled out (ndebug) strcmp runs on
\* the buffers, and a buffer where it meets a byte never written or no
\* terminator is an access outside what the string holds.
string_cmp_is_0(M, i, j, ndebug) ==
  IF ~ndebug /\ ~(M_STR1NG_CONTRACT(M, i) /\ M_STR1NG_CONTRACT(M, j))
  THEN [M |-> [M EXCEPT !.aborted = TRUE], ret |-> FALSE]
  ELSE Then(<< CStrOf(Buf(M, i)), CStrOf(Buf(M, j)) >>, LAMBDA c :
         [M |-> [M EXCEPT !.ub =
                   \/ M.ub
                   \/ Len(c[1]) = Len(Buf(M, i))
                   \/ Len(c[2]) = Len(Buf(M, j))
                   \/ \E k \in 1..2 : \E n \in 1..Len(c[k]) : c[k][n] = U],
          ret |-> c[1] = c[2]])

string_equal_p(M, i, j, ndebug) ==
  IF string_size(M.v[i]) = string_size(M.v[j])
  THEN string_cmp_is_0(M, i, j, ndebug)
  ELSE [M |-> M, ret |-> FALSE]

\* the sizes of the valid string: empty, inline, on the heap, and the
\* sizes around the largest value of a byte
OorSizes ==
  { 0, 1, SIZEOF_string_heap_ct - 2, SIZEOF_string_heap_ct - 1,
    SIZEOF_string_heap_ct, 2 * CHAR_MAX, 2 * CHAR_MAX + 1 }

\* string 1 is a valid string made of one byte repeated, possibly reserved
\* to the heap; string 2 is a declared object; char is signed or unsigned
InitOor ==
  \E size \in OorSizes, b \in { 97, 2 * CHAR_MAX + 1 }, cs \in BOOLEAN,
     n \in { -1, SIZEOF_string_heap_ct + 1 } :
    /\ charSigned = cs
    /\ printHigh = FALSE
    /\ \E M \in { Build(NoMach, 1, [k \in 1..size |-> b], n) } :
           /\ v = M.v
           /\ heap = M.heap
           /\ ub = M.ub
           /\ aborted = M.aborted
           /\ last = Start(M, [k \in 1..size |-> b])
    /\ live = [i \in StrIds |-> i = 1]
    /\ steps = 0
    /\ given = { }
    /\ variants = NoVariants

\* last.b is the n of the out-of-range value string 2 holds
OorSet ==
  /\ last.op = "start"
  /\ \E n \in { 0, 1 } :
       Do(string_oor_set(Mach, 2, n), Op("oor_set", 2, 0, n, n, last.s1, << >>))
  /\ UNCHANGED live

OorEqualP ==
  /\ last.op = "oor_set"
  /\ \E i \in StrIds, n \in { 0, 1 } :
       Do(Mach, [Op("oor_equal_p", i, 0, n, last.b, last.s1, << >>)
                   EXCEPT !.ret = string_oor_equal_p(Mach, i, n)])
  /\ UNCHANGED live

EqualP ==
  /\ last.op = "oor_set"
  /\ \E i \in StrIds, ndebug \in BOOLEAN :
       \E E \in { string_equal_p(Mach, i, 3 - i, ndebug) } :
         Do(E.M, [Op("equal_p", i, 3 - i, 0, last.b, last.s1, << >>)
                    EXCEPT !.ret = E.ret])
  /\ UNCHANGED live

NextOor == OorSet \/ OorEqualP \/ EqualP

SpecOor == InitOor /\ [][NextOor]_vars

(***************************************************************************)
(* string_replace_all_str with a replacement longer than the pattern, on   *)
(* strings made of copies of the pattern and a tail                        *)
(***************************************************************************)
MaxLoPat == 5
MaxLoGrow == 2
MaxLoCopies == 2
MaxLoTail == 4

\* n times the bytes of s
RECURSIVE Copies(_, _)
Copies(s, n) == IF n = 0 THEN << >> ELSE s \o Copies(s, n - 1)

\* the pattern of p bytes "a...ab", which does not overlap itself
LoPattern(p) == [k \in 1..p |-> IF k = p THEN 98 ELSE 97]

\* string 1 is k copies of the pattern and t bytes 'x', inline or on the
\* heap, with the capacity of its construction, a capacity cut down to its
\* size by string_reserve(0), or a larger one; last.s2 is << p, k, t >>
InitLo ==
  \E p \in 1..MaxLoPat, k \in 0..MaxLoCopies, t \in 0..MaxLoTail,
     n \in { -1, 0, SIZEOF_string_heap_ct + 1, 2 * SIZEOF_string_heap_ct } :
    /\ charSigned = TRUE
    /\ printHigh = FALSE
    /\ \E M \in { Build(NoMach, 1,
                        Copies(LoPattern(p), k) \o [j \in 1..t |-> 120], n) } :
           /\ v = M.v
           /\ heap = M.heap
           /\ ub = M.ub
           /\ aborted = M.aborted
           /\ last = [Start(M, Copies(LoPattern(p), k) \o [j \in 1..t |-> 120])
                        EXCEPT !.s2 = << p, k, t >>]
    /\ live = [i \in StrIds |-> i = 1]
    /\ steps = 0
    /\ given = { }
    /\ variants = NoVariants

\* the replacement is r bytes 'c'; last.a is the size and last.b the
\* capacity before the call, last.s1 the pattern, last.s2 the replacement
ReplaceAllLo ==
  \E g \in 1..MaxLoGrow :
    /\ last.op = "start"
    /\ Do(string_replace_all_str(Mach, 1, LoPattern(last.s2[1]),
                                 [j \in 1..(last.s2[1] + g) |-> 99]),
          [Op("replace_all_lo", 1, last.s2[2], string_size(v[1]),
              string_capacity(v[1]), LoPattern(last.s2[1]),
              [j \in 1..(last.s2[1] + g) |-> 99])
             EXCEPT !.it = [NoIt EXCEPT !.u = last.s2[3]]])
    /\ UNCHANGED live

NextLo == ReplaceAllLo

SpecLo == InitLo /\ [][NextLo]_vars

(***************************************************************************)
(* m_str1ng_fit2size on words of WordBits bits                             *)
(***************************************************************************)
\* the width of size_t in this part of the model
WordBits == 6

\* SIZE_MAX + 1
WordMod == 2 ^ WordBits

\* the growth of m_str1ng_fit2size in size_t arithmetic, for a string of
\* capacity old_alloc: whether the function aborts and the capacity the
\* string is left with.  realloc gives the block (ok) or returns NULL.
fit2size_words(old_alloc, size_alloc, ok) ==
  LET alloc == (size_alloc + size_alloc \div 2) % WordMod
  IN  IF size_alloc > old_alloc
      THEN IF alloc <= old_alloc
           THEN [fatal |-> TRUE, capacity |-> old_alloc]
           ELSE IF ~ok THEN [fatal |-> TRUE, capacity |-> old_alloc]
           ELSE [fatal |-> FALSE, capacity |-> alloc]
      ELSE [fatal |-> FALSE, capacity |-> old_alloc]

\* string 1 is an empty string; last.s2 is a capacity, from the inline
\* capacity to SIZE_MAX, and a requested allocation
InitFit ==
  \E old_alloc \in (SIZEOF_string_heap_ct - 1)..(WordMod - 1),
     size_alloc \in 0..(WordMod - 1) :
    /\ charSigned = TRUE
    /\ printHigh = FALSE
    /\ \E M \in { string_init(NoMach, 1) } :
           /\ v = M.v
           /\ heap = M.heap
           /\ ub = M.ub
           /\ aborted = M.aborted
           /\ last = [Start(M, << >>) EXCEPT !.s2 = << old_alloc, size_alloc >>]
    /\ live = [i \in StrIds |-> i = 1]
    /\ steps = 0
    /\ given = { }
    /\ variants = NoVariants

\* last.a is the capacity before, last.b the request, last.j the capacity
\* after; last.ret tells that realloc gave a block
Fit2SizeWords ==
  \E ok \in BOOLEAN :
    /\ last.op = "start"
    /\ \E F \in { fit2size_words(last.s2[1], last.s2[2], ok) } :
         Do([Mach EXCEPT !.aborted = F.fatal],
            [Op("fit2size_words", 1, F.capacity, last.s2[1], last.s2[2],
                << >>, << >>) EXCEPT !.ret = ok])
    /\ UNCHANGED live

NextFit == Fit2SizeWords

SpecFit == InitFit /\ [][NextFit]_vars

(***************************************************************************)
(* The mutators that ask m_str1ng_fit2size for room, applied once to a     *)
(* string whose size is around the inline capacity                         *)
(***************************************************************************)
MaxCapAdd == 3

\* string 1 is n bytes 'a' with the capacity of its construction, a
\* capacity cut down by string_reserve(0), or a larger one; string 2 and
\* last.s1 are the bytes given to the mutator, 'b' and line feeds
InitCap ==
  \E n \in (SIZEOF_string_heap_ct - 2 - MaxCapAdd)..(SIZEOF_string_heap_ct + 1),
     r \in { -1, 0, SIZEOF_string_heap_ct + SIZEOF_string_heap_ct \div 2 },
     src \in StrsOver({ 98, 10 }, 0, MaxCapAdd) :
    /\ charSigned = TRUE
    /\ printHigh = FALSE
    /\ \E M \in { Build(Build(NoMach, 1, [k \in 1..n |-> 97], r), 2, src, -1) } :
           /\ v = M.v
           /\ heap = M.heap
           /\ ub = M.ub
           /\ aborted = M.aborted
           /\ last = Start(M, src)
    /\ live = [i \in StrIds |-> TRUE]
    /\ steps = 0
    /\ given = { }
    /\ variants = NoVariants

CapPushBack ==
  /\ last.op = "start"
  /\ Do(string_push_back(Mach, 1, 98), Op("push_back", 1, 0, 98, 0, last.s1, << >>))
  /\ UNCHANGED live

CapSetStr ==
  /\ last.op = "start"
  /\ Do(string_set_str(Mach, 1, last.s1), Op("set_str", 1, 0, 0, 0, last.s1, << >>))
  /\ UNCHANGED live

CapSetStrn ==
  /\ last.op = "start"
  /\ Do(string_set_strn(Mach, 1, last.s1, 2), Op("set_strn", 1, 0, 2, 0, last.s1, << >>))
  /\ UNCHANGED live

CapSet ==
  /\ last.op = "start"
  /\ Do(string_set(Mach, 1, 2), Op("set", 1, 2, 0, 0, last.s1, << >>))
  /\ UNCHANGED live

CapSetN ==
  /\ last.op = "start"
  /\ Do(string_set_n(Mach, 1, 2, 0, 2), Op("set_n", 1, 2, 0, 2, last.s1, << >>))
  /\ UNCHANGED live

CapCatStr ==
  /\ last.op = "start"
  /\ Do(string_cat_str(Mach, 1, last.s1), Op("cat_str", 1, 0, 0, 0, last.s1, << >>))
  /\ UNCHANGED live

CapCat ==
  /\ last.op = "start"
  /\ Do(string_cat(Mach, 1, 2), Op("cat", 1, 2, 0, 0, last.s1, << >>))
  /\ UNCHANGED live

CapReplaceStr ==
  /\ last.op = "start"
  /\ Do(string_replace_str(Mach, 1, << 97 >>, last.s1, 0),
        Op("replace_str", 1, 0, 0, 0, last.s1, << >>))
  /\ UNCHANGED live

CapReplaceAt ==
  /\ last.op = "start"
  /\ Do(string_replace_at(Mach, 1, 0, 1, last.s1),
        Op("replace_at", 1, 0, 0, 1, last.s1, << >>))
  /\ UNCHANGED live

\* last.a is 1 when the quoted form is appended
CapGetStr ==
  /\ last.op = "start"
  /\ \E append \in BOOLEAN :
       Do(string_get_str(Mach, 1, 2, append),
          Op("get_str", 1, 2, IF append THEN 1 ELSE 0, 0, last.s1, << >>))
  /\ UNCHANGED live

NextCap ==
  \/ CapPushBack
  \/ CapSetStr
  \/ CapSetStrn
  \/ CapSet
  \/ CapSetN
  \/ CapCatStr
  \/ CapCat
  \/ CapReplaceStr
  \/ CapReplaceAt
  \/ CapGetStr

SpecCap == InitCap /\ [][NextCap]_vars

(***************************************************************************)
(* One step of the UTF8 decoder from every state on every byte             *)
(***************************************************************************)
M_STRING_UTF8_DECODING_1 == 8

M_STRING_UTF8_DECODING_2 == 16

M_STRING_UTF8_DOCODING_3 == 24

\* the values of m_str1ng_utf8_state_e
Utf8States ==
  { M_STRING_UTF8_STARTING, M_STRING_UTF8_DECODING_1,
    M_STRING_UTF8_DECODING_2, M_STRING_UTF8_DOCODING_3,
    M_STRING_UTF8_ERROR }

\* the unicode values the decoder is entered with
DecodeUnicodes == { 0, 1, 2 ^ 20 + 63 }

\* last.i is *state, last.j the character, last.a *unicode
InitDecode ==
  /\ charSigned = TRUE
  /\ printHigh = FALSE
  /\ \E state \in Utf8States, c \in 0 .. 2 * CHAR_MAX + 1,
        unicode \in DecodeUnicodes :
       \E M \in { Build(NoMach, 1, << >>, -1) } :
           /\ v = M.v
           /\ heap = M.heap
           /\ ub = M.ub
           /\ aborted = M.aborted
           /\ last = [Start(M, << >>) EXCEPT !.i = state, !.j = c,
                                             !.a = unicode]
  /\ live = [i \in StrIds |-> i = 1]
  /\ steps = 0
  /\ given = { }
  /\ variants = NoVariants

\* m_str1ng_utf8_decode(c, &state, &unicode): last.b is *state and last.a
\* *unicode after the call, last.s2 the state and the value before it
Utf8Decode ==
  /\ last.op = "start"
  /\ \E d \in { m_str1ng_utf8_decode(last.j, last.i, last.a) } :
       Do(Mach, Op("utf8_decode", last.i, last.j, d.unicode, d.state,
                   << >>, << last.i, last.a >>))
  /\ UNCHANGED live

NextDecode == Utf8Decode

SpecDecode == InitDecode /\ [][NextDecode]_vars

(***************************************************************************)
(* Variant of m-variant.h: VARIANT_DEF2(variant, (1, ...), (2, ...))       *)
(*                                                                         *)
(* An object is its type tag and the storage of its union, kept as the     *)
(* identifier of the field value constructed there last (0: none).  Each   *)
(* value constructed by a method of a field (INIT, INIT_SET, INIT_MOVE) is *)
(* an entry of made: its field and how many times it was destroyed (CLEAR, *)
(* or the source of INIT_MOVE).  st is "raw" before the first constructor, *)
(* "live" after a constructor, "dead" after _clear or a move from it.      *)
(***************************************************************************)
variant_EMPTY == 0

\* the number of fields of the variant
variant_MAX_TYPE == 2

VarFields == 1 .. variant_MAX_TYPE

\* the two objects of the program, and the local tmp of _swap
VarIds == { 1, 2 }

VarTmp == 3

MaxMade == 5

VarMach ==
  [my |-> variants.my, made |-> variants.made, ub |-> ub,
   aborted |-> aborted]

M_VAR1ANT_CONTRACT(M, k) ==
  /\ M.my[k].type >= variant_EMPTY
  /\ M.my[k].type <= variant_MAX_TYPE

\* the value id is a constructed, not yet destroyed value of the field f
VarAlive(M, id, f) ==
  /\ id \in 1 .. Len(M.made)
  /\ M.made[id].field = f
  /\ M.made[id].destroyed = 0

\* INIT, and INIT_SET from src (0: a value of the caller), of the field f of
\* object k
M_VAR1ANT_CALL_INIT_SET(M, k, f, src) ==
  [M EXCEPT !.made = Append(@, [field |-> f, destroyed |-> 0]),
            !.my[k].value = Len(M.made) + 1,
            !.ub = @ \/ (src # 0 /\ ~VarAlive(M, src, f))]

\* SET of the field f of object k from src (0: a value of the caller)
M_VAR1ANT_CALL_SET(M, k, f, src) ==
  [M EXCEPT !.ub = @ \/ ~VarAlive(M, M.my[k].value, f)
                     \/ (src # 0 /\ ~VarAlive(M, src, f))]

\* the value id is destroyed as a value of the field f
VarDestroy(M, id, f) ==
  IF id \in 1 .. Len(M.made)
  THEN [M EXCEPT !.made[id].destroyed = @ + 1,
                 !.ub = @ \/ ~VarAlive(M, id, f)]
  ELSE [M EXCEPT !.ub = TRUE]

\* CLEAR of the field f of object k
M_VAR1ANT_CALL_CLEAR(M, k, f) == VarDestroy(M, M.my[k].value, f)

\* INIT_MOVE of the field f of object k from the one of object o: a value
\* is constructed in k and the one of o is destroyed
M_VAR1ANT_CALL_INIT_MOVE(M, k, f, o) ==
  Then(VarDestroy(M, M.my[o].value, f), LAMBDA M1 :
    [M1 EXCEPT !.made = Append(@, [field |-> f, destroyed |-> 0]),
               !.my[k].value = Len(M1.made) + 1])

\* SWAP of the field f of the objects k1 and k2
M_VAR1ANT_CALL_SWAP(M, k1, k2, f) ==
  [M EXCEPT !.my[k1].value = M.my[k2].value,
            !.my[k2].value = M.my[k1].value,
            !.ub = @ \/ ~VarAlive(M, M.my[k1].value, f)
                     \/ ~VarAlive(M, M.my[k2].value, f)]

VarAbort(M) == [M EXCEPT !.aborted = TRUE]

variant_init(M, k) == [M EXCEPT !.my[k].type = variant_EMPTY]

variant_clear(M, k) ==
  IF ~M_VAR1ANT_CONTRACT(M, k) THEN VarAbort(M)
  ELSE Then(IF M.my[k].type = variant_EMPTY THEN M
            ELSE M_VAR1ANT_CALL_CLEAR(M, k, M.my[k].type), LAMBDA M1 :
         [M1 EXCEPT !.my[k].type = variant_EMPTY])

variant_init_set(M, k, o) ==
  IF ~M_VAR1ANT_CONTRACT(M, o) THEN VarAbort(M)
  ELSE Then([M EXCEPT !.my[k].type = M.my[o].type], LAMBDA M1 :
         IF M1.my[o].type = variant_EMPTY THEN M1
         ELSE M_VAR1ANT_CALL_INIT_SET(M1, k, M1.my[o].type, M1.my[o].value))

\* _set that does not clear the value of another type
variant_set_noclear(M, k, o) ==
  IF ~M_VAR1ANT_CONTRACT(M, k) \/ ~M_VAR1ANT_CONTRACT(M, o) THEN VarAbort(M)
  ELSE IF M.my[k].type # M.my[o].type
  THEN variant_init_set(M, k, o)
  ELSE IF M.my[o].type = variant_EMPTY THEN M
  ELSE M_VAR1ANT_CALL_SET(M, k, M.my[o].type, M.my[o].value)

variant_set(M, k, o) ==
  IF ~M_VAR1ANT_CONTRACT(M, k) \/ ~M_VAR1ANT_CONTRACT(M, o) THEN VarAbort(M)
  ELSE IF M.my[k].type # M.my[o].type
  THEN variant_init_set(variant_clear(M, k), k, o)
  ELSE IF M.my[o].type = variant_EMPTY THEN M
  ELSE M_VAR1ANT_CALL_SET(M, k, M.my[o].type, M.my[o].value)

\* _init_<f>
variant_init_field(M, k, f) ==
  M_VAR1ANT_CALL_INIT_SET([M EXCEPT !.my[k].type = f], k, f, 0)

\* _init_set_<f> from a value of the caller
variant_init_set_field(M, k, f) ==
  M_VAR1ANT_CALL_INIT_SET([M EXCEPT !.my[k].type = f], k, f, 0)

\* _set_<f> from a value of the caller
variant_set_field(M, k, f) ==
  IF ~M_VAR1ANT_CONTRACT(M, k) THEN VarAbort(M)
  ELSE IF M.my[k].type = f THEN M_VAR1ANT_CALL_SET(M, k, f, 0)
  ELSE Then(variant_clear(M, k), LAMBDA M1 :
         M_VAR1ANT_CALL_INIT_SET([M1 EXCEPT !.my[k].type = f], k, f, 0))

\* _get_<f> and _cget_<f>: TRUE when the pointer returned is not NULL
variant_get_field(M, k, f) ==
  IF ~M_VAR1ANT_CONTRACT(M, k) THEN [M |-> VarAbort(M), ret |-> FALSE]
  ELSE [M |-> M, ret |-> (M.my[k].type = f)]

variant_init_move(M, e, o) ==
  IF ~M_VAR1ANT_CONTRACT(M, o) THEN VarAbort(M)
  ELSE Then([M EXCEPT !.my[e].type = M.my[o].type], LAMBDA M1 :
         Then(IF M1.my[e].type = variant_EMPTY THEN M1
              ELSE M_VAR1ANT_CALL_INIT_MOVE(M1, e, M1.my[e].type, o),
              LAMBDA M2 : [M2 EXCEPT !.my[o].type = variant_EMPTY]))

variant_move(M, e, o) ==
  IF ~M_VAR1ANT_CONTRACT(M, e) \/ ~M_VAR1ANT_CONTRACT(M, o) THEN VarAbort(M)
  ELSE variant_init_move(variant_clear(M, e), e, o)

\* _move_<f> from a value of the caller
variant_move_field(M, k, f) ==
  IF ~M_VAR1ANT_CONTRACT(M, k) THEN VarAbort(M)
  ELSE Then(variant_clear(M, k), LAMBDA M1 :
         M_VAR1ANT_CALL_INIT_SET([M1 EXCEPT !.my[k].type = f], k, f, 0))

\* _swap; im tells that every field has an INIT_MOVE method
variant_swap(M, e1, e2, im) ==
  IF ~M_VAR1ANT_CONTRACT(M, e1) \/ ~M_VAR1ANT_CONTRACT(M, e2)
  THEN VarAbort(M)
  ELSE IF M.my[e1].type = M.my[e2].type
  THEN IF M.my[e1].type = variant_EMPTY THEN M
       ELSE M_VAR1ANT_CALL_SWAP(M, e1, e2, M.my[e1].type)
  ELSE IF im
  THEN Then(variant_init_move(M, VarTmp, e1), LAMBDA M1 :
         Then(variant_init_move(M1, e1, e2), LAMBDA M2 :
           variant_init_move(M2, e2, VarTmp)))
  ELSE Then(variant_init_set(M, VarTmp, e1), LAMBDA M1 :
         Then(variant_set(M1, e1, e2), LAMBDA M2 :
           Then(variant_set(M2, e2, VarTmp), LAMBDA M3 :
             variant_clear(M3, VarTmp))))

\* an object before its constructor: a type that is a tag or is none, no
\* value
VarRaw(t) == [type |-> t, value |-> 0, st |-> "raw"]

\* the two objects are declared; the build has INIT_MOVE for every field
\* or not
InitVariant ==
  /\ charSigned = TRUE
  /\ printHigh = FALSE
  /\ \E M \in { Build(NoMach, 1, << >>, -1) } :
         /\ v = M.v
         /\ heap = M.heap
         /\ ub = M.ub
         /\ aborted = M.aborted
         /\ last = Start(M, << >>)
  /\ live = [i \in StrIds |-> i = 1]
  /\ steps = 0
  /\ given = { }
  /\ \E t \in { variant_EMPTY, variant_MAX_TYPE + 1 }, im \in BOOLEAN :
       variants = [my |-> << VarRaw(t), VarRaw(t), VarRaw(t) >>,
                   made |-> << >>, init_move |-> im]

\* the step of a variant function: R is the machine it leaves, S the states
\* of the objects after it; the local tmp of _swap is gone at the return
VarDo(R, S, rec) ==
  /\ Len(R.made) <= MaxMade
  /\ ~ub /\ ~aborted
  /\ variants' = [variants EXCEPT
                    !.my = [k \in 1 .. VarTmp |->
                              IF k = VarTmp THEN variants.my[k]
                              ELSE [R.my[k] EXCEPT !.st = S[k]]],
                    !.made = R.made]
  /\ ub' = R.ub
  /\ aborted' = R.aborted
  /\ last' = rec
  /\ UNCHANGED << v, heap, live, charSigned, printHigh, steps, given >>

\* the states of the objects, with the ones of k and o changed
VarSt(k, s, o, t) ==
  [n \in 1 .. VarTmp |->
     IF n = o THEN t ELSE IF n = k THEN s ELSE variants.my[n].st]

VarLive(k) == variants.my[k].st = "live"

VariantInit ==
  \E k \in VarIds :
    /\ ~VarLive(k)
    /\ VarDo(variant_init(VarMach, k), VarSt(k, "live", k, "live"),
             Op("init", k, 0, 0, 0, << >>, << >>))

VariantClear ==
  \E k \in VarIds :
    /\ VarLive(k)
    /\ VarDo(variant_clear(VarMach, k), VarSt(k, "dead", k, "dead"),
             Op("clear", k, 0, 0, 0, << >>, << >>))

VariantInitSet ==
  \E k \in VarIds, o \in VarIds :
    /\ ~VarLive(k) /\ VarLive(o)
    /\ VarDo(variant_init_set(VarMach, k, o), VarSt(k, "live", k, "live"),
             Op("init_set", k, o, 0, 0, << >>, << >>))

VariantSet ==
  \E k \in VarIds, o \in VarIds :
    /\ VarLive(k) /\ VarLive(o)
    /\ VarDo(variant_set(VarMach, k, o), VarSt(k, "live", k, "live"),
             Op("set", k, o, 0, 0, << >>, << >>))

VariantInitField ==
  \E k \in VarIds, f \in VarFields :
    /\ ~VarLive(k)
    /\ VarDo(variant_init_field(VarMach, k, f), VarSt(k, "live", k, "live"),
             Op("init_field", k, f, 0, 0, << >>, << >>))

VariantInitSetField ==
  \E k \in VarIds, f \in VarFields :
    /\ ~VarLive(k)
    /\ VarDo(variant_init_set_field(VarMach, k, f),
             VarSt(k, "live", k, "live"),
             Op("init_set_field", k, f, 0, 0, << >>, << >>))

VariantSetField ==
  \E k \in VarIds, f \in VarFields :
    /\ VarLive(k)
    /\ VarDo(variant_set_field(VarMach, k, f), VarSt(k, "live", k, "live"),
             Op("set_field", k, f, 0, 0, << >>, << >>))

\* _get_<f> or _cget_<f>: last.ret tells that the pointer is not NULL
VariantGetField ==
  \E k \in VarIds, f \in VarFields :
    /\ VarLive(k)
    /\ \E R \in { variant_get_field(VarMach, k, f) } :
         VarDo(R.M, VarSt(k, "live", k, "live"),
               [Op("get_field", k, f, 0, 0, << >>, << >>)
                  EXCEPT !.ret = R.ret])

VariantInitMove ==
  \E e \in VarIds, o \in VarIds :
    /\ variants.init_move
    /\ ~VarLive(e) /\ VarLive(o)
    /\ VarDo(variant_init_move(VarMach, e, o), VarSt(e, "live", o, "dead"),
             Op("init_move", e, o, 0, 0, << >>, << >>))

VariantMove ==
  \E e \in VarIds, o \in VarIds :
    /\ variants.init_move
    /\ VarLive(e) /\ VarLive(o)
    /\ VarDo(variant_move(VarMach, e, o), VarSt(e, "live", o, "dead"),
             Op("move", e, o, 0, 0, << >>, << >>))

VariantMoveField ==
  \E k \in VarIds, f \in VarFields :
    /\ variants.init_move
    /\ VarLive(k)
    /\ VarDo(variant_move_field(VarMach, k, f), VarSt(k, "live", k, "live"),
             Op("move_field", k, f, 0, 0, << >>, << >>))

\* last.a and last.b are the types before the call
VariantSwap ==
  \E e1 \in VarIds, e2 \in VarIds :
    /\ VarLive(e1) /\ VarLive(e2)
    /\ VarDo(variant_swap(VarMach, e1, e2, variants.init_move),
             VarSt(e1, "live", e2, "live"),
             Op("swap", e1, e2, variants.my[e1].type, variants.my[e2].type,
                << >>, << >>))

NextVariant ==
  \/ VariantInit
  \/ VariantClear
  \/ VariantInitSet
  \/ VariantSet
  \/ VariantInitField
  \/ VariantInitSetField
  \/ VariantSetField
  \/ VariantGetField
  \/ VariantInitMove
  \/ VariantMove
  \/ VariantMoveField
  \/ VariantSwap

SpecVariant == InitVariant /\ [][NextVariant]_vars

(***************************************************************************)
(* Properties                                                              *)
(***************************************************************************)
HeapBacked(M, i) == ~m_str1ng_stack_p(M.v[i])

\* C1: after any sequence of the string operations, every initialised
\* string has a NUL byte at index size, size < capacity, and when it is
\* heap-backed a capacity above the inline capacity (15); no operation
\* accessed a byte outside its buffer.
C1_ContractHolds ==
  /\ ~ub
  /\ \A i \in StrIds :
       live[i] =>
         /\ Rd(Mach, i, string_size(v[i])) = 0
         /\ string_size(v[i]) < string_capacity(v[i])
         /\ (HeapBacked(Mach, i) => string_capacity(v[i]) > SIZEOF_string_heap_ct - 1)

\* an inline string was promoted to the heap by string_replace_at
C1_Witness ==
  /\ last.op = "replace_at"
  /\ m_str1ng_stack_p(last.pre.v[last.i])
  /\ HeapBacked(Mach, last.i)
  /\ string_size(v[last.i]) > SIZEOF_string_heap_ct


\* C4 as claimed: after string_init_move / string_move the destination holds
\* the former content of the source, a heap buffer is handed over, and the
\* source is a valid empty inline string (size 0, NUL at index 0).
C4_MoveLeavesSourceEmpty ==
  last.op \in { "init_move", "move" } =>
    /\ Content(Mach, last.i) = Content(last.pre, last.j)
    /\ v[last.i].ptr = last.pre.v[last.j].ptr
    /\ m_str1ng_stack_p(v[last.j])
    /\ string_size(v[last.j]) = 0
    /\ Rd(Mach, last.j, 0) = 0

\* C4 amended: after string_init_move / string_move the destination holds
\* the former content of the source (same size, same bytes, same heap block,
\* whose bytes were not touched), the source no longer points to a heap
\* block, and the 16 bytes of the source's union are left as they were: the
\* source is not reset and must be initialised again before it is used.
C4_MoveTransfers ==
  last.op \in { "init_move", "move" } =>
    /\ string_size(v[last.i]) = string_size(last.pre.v[last.j])
    /\ Content(Mach, last.i) = Content(last.pre, last.j)
    /\ v[last.i].ptr = last.pre.v[last.j].ptr
    /\ (v[last.i].ptr # 0 => heap[v[last.i].ptr] = last.pre.heap[v[last.i].ptr])
    /\ m_str1ng_stack_p(v[last.j])
    /\ v[last.j].u = last.pre.v[last.j].u
    /\ \A b \in BlockIds :
         heap[b] # << >> => \E k \in StrIds : live[k] /\ v[k].ptr = b

\* string_move handed a heap block over from a heap-backed source to a
\* destination that held another heap block
C4_Witness ==
  /\ last.op = "move"
  /\ HeapBacked(last.pre, last.j)
  /\ HeapBacked(last.pre, last.i)
  /\ HeapBacked(Mach, last.i)
  /\ Rd(Mach, last.j, 0) # 0

C8_Reserve ==
  last.op = "reserve" =>
    LET i == last.i
        a == Max(last.a, string_size(last.pre.v[i]) + 1)
    IN  /\ string_size(v[i]) = string_size(last.pre.v[i])
        /\ Content(Mach, i) = Content(last.pre, i)
        /\ Rd(Mach, i, string_size(v[i])) = 0
        /\ (a < SIZEOF_string_heap_ct =>
              /\ m_str1ng_stack_p(v[i])
              /\ (HeapBacked(last.pre, i) => heap[last.pre.v[i].ptr] = << >>))
        /\ (a >= SIZEOF_string_heap_ct =>
              /\ HeapBacked(Mach, i)
              /\ string_capacity(v[i]) = a
              /\ Len(heap[v[i].ptr]) = a)
        /\ string_capacity(v[i]) >= last.a

\* string_reserve demoted a non-empty heap-backed string to the inline buffer
C8_Witness ==
  /\ last.op = "reserve"
  /\ HeapBacked(last.pre, last.i)
  /\ m_str1ng_stack_p(v[last.i])
  /\ string_size(v[last.i]) > 0

InPlaceOps ==
  { "set_str", "set_strn", "set", "set_n", "cat_str", "cat", "push_back",
    "left", "right", "mid", "strim", "reset", "replace_str", "replace_at",
    "replace_all_str" }

\* C9: set*, cat*, push_back, left, right, mid, strim, reset and replace*
\* never turn a heap-backed string into an inline one and never lower its
\* capacity, even when its length drops below the inline threshold.
C9_NoAutomaticShrink ==
  last.op \in InPlaceOps =>
    \A i \in StrIds :
      (live[i] /\ HeapBacked(last.pre, i)) =>
        /\ HeapBacked(Mach, i)
        /\ v[i].ptr = last.pre.v[i].ptr
        /\ string_capacity(v[i]) >= string_capacity(last.pre.v[i])
        /\ Len(heap[v[i].ptr]) = string_capacity(v[i])

\* a heap-backed string was shortened below the inline threshold and kept
\* its heap block
C9_Witness ==
  /\ last.op \in { "left", "mid", "reset", "strim", "set_str", "replace_all_str" }
  /\ HeapBacked(last.pre, last.i)
  /\ string_size(last.pre.v[last.i]) >= SIZEOF_string_heap_ct - 1
  /\ string_size(v[last.i]) < SIZEOF_string_heap_ct - 1
  /\ HeapBacked(Mach, last.i)

\* the bytes string_set / string_set_str / string_set_n are given
SetSource ==
  IF last.op = "set_str" THEN last.s1
  ELSE IF last.op = "set" THEN Content(last.pre, last.j)
  ELSE SubSeq(Content(last.pre, last.j), last.a + 1,
              last.a + Min(last.b, string_size(last.pre.v[last.j]) - last.a))

\* C10 as claimed: string_set, string_set_str and string_set_n replace the
\* content by the source bytes, leave a NUL at the new size and leave the
\* capacity equal to exactly the needed allocation (new size + 1).
C10_SetExactCapacity ==
  last.op \in { "set", "set_str", "set_n" } =>
    /\ Content(Mach, last.i) = SetSource
    /\ Rd(Mach, last.i, string_size(v[last.i])) = 0
    /\ string_capacity(v[last.i]) = string_size(v[last.i]) + 1

\* C10 amended: string_set, string_set_str and string_set_n replace the
\* content by the source bytes and leave a NUL at the new size; the capacity
\* is unchanged when new size + 1 fits the old capacity, and is
\* needed + needed/2 (needed = new size + 1) otherwise.
C10_SetGrowsCapacity ==
  last.op \in { "set", "set_str", "set_n" } =>
    LET needed == Len(SetSource) + 1
        old == string_capacity(last.pre.v[last.i])
    IN  /\ Content(Mach, last.i) = SetSource
        /\ string_size(v[last.i]) = Len(SetSource)
        /\ Rd(Mach, last.i, string_size(v[last.i])) = 0
        /\ string_capacity(v[last.i]) =
             IF needed <= old THEN old ELSE needed + needed \div 2

\* string_set copied a heap-backed source into an inline string
C10_Witness ==
  /\ last.op = "set"
  /\ m_str1ng_stack_p(last.pre.v[last.i])
  /\ HeapBacked(Mach, last.i)
  /\ string_size(v[last.i]) = SIZEOF_string_heap_ct - 1
  /\ string_capacity(v[last.i]) > string_size(v[last.i]) + 1


(***************************************************************************)
(* Reference substitution                                                  *)
(***************************************************************************)
\* S scanned from left to right: every occurrence of P found by the scan is
\* replaced by R, the other bytes are copied
RECURSIVE RefReplace(_, _, _)
RefReplace(S, P, R) ==
  IF Len(S) < Len(P) THEN S
  ELSE IF IsAt(S, 0, P)
       THEN R \o RefReplace(SubSeq(S, Len(P) + 1, Len(S)), P, R)
       ELSE << S[1] >> \o RefReplace(Tail(S), P, R)

\* the offsets, in RefReplace(S, P, R), of the copies of R, in order (equal
\* offsets when R is empty and two occurrences are adjacent); from is the
\* offset in the result of the first byte of S
RECURSIVE RefInserts(_, _, _, _)
RefInserts(S, P, R, from) ==
  IF Len(S) < Len(P) THEN << >>
  ELSE IF IsAt(S, 0, P)
       THEN << from >> \o RefInserts(SubSeq(S, Len(P) + 1, Len(S)), P, R,
                                     from + Len(R))
       ELSE RefInserts(Tail(S), P, R, from + 1)

Occurs(S, P) == StrStr(S, P) # -1

\* C2: string_replace_all_str(S, P, R) leaves the result of the reference
\* substitution that scans S from left to right and replaces every
\* non-overlapping occurrence of P by R, in the forward pass (|P| >= |R|)
\* and in the reverse pass (|P| < |R|).
C2_ReplaceAllIsLeftToRight ==
  last.op = "replace_all_str" =>
    /\ ~ub
    /\ Content(Mach, 1) = RefReplace(Content(last.pre, 1), last.s1, last.s2)
    /\ Rd(Mach, 1, string_size(v[1])) = 0

\* C3 as claimed: the content left by string_replace_all_str(S, P, R)
\* contains no occurrence of P, unless R itself contains P.
C3_NoOccurrenceLeft ==
  last.op = "replace_all_str" =>
    (Occurs(last.s2, last.s1) \/ ~Occurs(Content(Mach, 1), last.s1))

\* C3 amended: when |P| >= |R| (forward pass) the content left by
\* string_replace_all_str(S, P, R) is S with the occurrences of P found by a
\* left-to-right scan replaced by R, and every occurrence of P in it
\* overlaps an inserted copy of R or, when R is empty, spans the place where
\* an occurrence was removed: no occurrence of P lies inside bytes copied
\* from S between two replacements.
C3_OccurrencesTouchInsert ==
  (last.op = "replace_all_str" /\ Len(last.s1) >= Len(last.s2)) =>
    LET P == last.s1
        R == last.s2
        S == Content(last.pre, 1)
        out == Content(Mach, 1)
        ins == RefInserts(S, P, R, 0)
    IN  /\ ~ub
        /\ out = RefReplace(S, P, R)
        /\ Rd(Mach, 1, string_size(v[1])) = 0
        /\ \A n \in DOMAIN ins : IsAt(out, ins[n], R)
        /\ \A k \in 0..Len(out) :
             IsAt(out, k, P) =>
               \E t \in { ins[n] : n \in DOMAIN ins } :
                 IF Len(R) = 0 THEN k < t /\ t < k + Len(P)
                 ELSE t < k + Len(P) /\ k < t + Len(R)

\* the forward pass removed an occurrence of P and left an occurrence of P
\* formed across the place of the replacement
C3_Witness ==
  /\ last.op = "replace_all_str"
  /\ Len(last.s1) >= Len(last.s2)
  /\ ~Occurs(last.s2, last.s1)
  /\ Occurs(Content(last.pre, 1), last.s1)
  /\ Occurs(Content(Mach, 1), last.s1)


\* C6: for every byte string S without NUL, string_get_str(out, S, false)
\* followed by string_parse_str(v, out, &end) returns true, leaves v equal
\* to S byte for byte and end just after the closing quote, which ends out.
C6_RoundTrip ==
  last.op = "parse_str" =>
    /\ ~ub
    /\ last.ret
    /\ Content(Mach, 1) = last.s1
    /\ Rd(Mach, 1, string_size(v[1])) = 0
    /\ last.a = Len(last.s2)
    /\ last.s2[last.a] = 34
    /\ Content(Mach, 2) = last.s2

\* a string with a byte above 127, a short form and an octal form went
\* through both conversions, the quoted form being on the heap
C6_Witness ==
  /\ last.op = "parse_str"
  /\ last.ret
  /\ charSigned
  /\ \E k \in DOMAIN last.s1 : last.s1[k] > CHAR_MAX
  /\ \E k \in DOMAIN last.s1 : last.s1[k] = 34
  /\ \E k \in DOMAIN last.s2 : k > 1 /\ last.s2[k - 1] = 92 /\ last.s2[k] = 55
  /\ HeapBacked(Mach, 2)


(***************************************************************************)
(* Reference: well-formed UTF-8                                            *)
(***************************************************************************)
\* the length of the sequence a lead byte announces, 0 for a byte that is
\* not a lead
LeadLen(b) ==
  IF b < 128 THEN 1
  ELSE IF b >= 192 /\ b < 224 THEN 2
  ELSE IF b >= 224 /\ b < 240 THEN 3
  ELSE IF b >= 240 /\ b < 248 THEN 4
  ELSE 0

IsContinuation(b) == b >= 128 /\ b < 192

\* the value a complete sequence of n bytes encodes
RECURSIVE SeqValue(_, _, _)
SeqValue(S, n, k) ==
  IF k = 1
  THEN (IF n = 1 THEN S[1] ELSE S[1] % (2 ^ (7 - n)))
  ELSE SeqValue(S, n, k - 1) * 64 + (S[k] % 64)

RECURSIVE WellFormed(_)
WellFormed(S) ==
  \/ S = << >>
  \/ LET n == LeadLen(S[1])
     IN  /\ n > 0
         /\ n <= Len(S)
         /\ \A k \in 2..n : IsContinuation(S[k])
         /\ SeqValue(S, n, n) <= 1114111
         /\ ~(SeqValue(S, n, n) >= 55296 /\ SeqValue(S, n, n) <= 57343)
         /\ WellFormed(SubSeq(S, n + 1, Len(S)))

\* C7: string_utf8_p(S) is true exactly when S is a concatenation of
\* complete sequences (a 1-, 2-, 3- or 4-byte lead followed by 0, 1, 2 or 3
\* continuation bytes) whose values are at most 0x10FFFF and outside
\* 0xD800-0xDFFF.
C7_Utf8PIffWellFormed ==
  last.op = "utf8_p" => (last.ret <=> WellFormed(last.s1))

\* what string_utf8_p does: it is true exactly when some well-formed string
\* starts with S and none of its sequences ends inside S but the last
Utf8PAcceptsPrefixes ==
  last.op = "utf8_p" =>
    (last.ret <=>
       \E n \in 0..Min(3, Len(last.s1)) :
         /\ WellFormed(SubSeq(last.s1, 1, Len(last.s1) - n))
         /\ n > 0 =>
              LET T == SubSeq(last.s1, Len(last.s1) - n + 1, Len(last.s1))
              IN  /\ LeadLen(T[1]) > n
                  /\ \A k \in 2..n : IsContinuation(T[k]))


(***************************************************************************)
(* Growth by string_push_back                                              *)
(***************************************************************************)
\* ceil(log_1.5(n / 15)): the least k with 1.5^k >= n / 15
CeilLog15(n) ==
  CHOOSE k \in -8..16 :
    LET Reaches(j) == IF j >= 0 THEN 15 * (3 ^ j) >= n * (2 ^ j)
                      ELSE 15 * (2 ^ (0 - j)) >= n * (3 ^ (0 - j))
    IN  Reaches(k) /\ (k > -8 => ~Reaches(k - 1))

\* C11 as claimed: after N calls of string_push_back on an empty string the
\* content is the N bytes pushed, capacity >= N+1, every reallocation
\* multiplied the capacity by at least 1.5, and the reallocations number at
\* most ceil(log_1.5((N+1)/15)) + 1.
C11_PushLogBound ==
  last.op = "push" =>
    /\ Content(Mach, 1) = last.s1
    /\ string_capacity(v[1]) >= last.a + 1
    /\ 2 * string_capacity(v[1]) >= 3 * string_capacity(last.pre.v[1])
         \/ string_capacity(v[1]) = string_capacity(last.pre.v[1])
    /\ last.b <= CeilLog15(last.a + 1) + 1

\* C11 amended: after N calls of string_push_back on an empty string the
\* content is the N bytes pushed, terminated, capacity >= N+1, every
\* reallocation multiplied the capacity by at least 1.5, and the
\* reallocations number at most max(0, ceil(log_1.5((N+1)/15)) + 1): none
\* while N <= 14.
C11_PushLogBoundFromZero ==
  last.op = "push" =>
    /\ ~ub /\ ~aborted
    /\ Content(Mach, 1) = last.s1
    /\ Rd(Mach, 1, last.a) = 0
    /\ string_capacity(v[1]) >= last.a + 1
    /\ 2 * string_capacity(v[1]) >= 3 * string_capacity(last.pre.v[1])
         \/ string_capacity(v[1]) = string_capacity(last.pre.v[1])
    /\ last.b <= Max(0, CeilLog15(last.a + 1) + 1)
    /\ (last.a < SIZEOF_string_heap_ct - 1 => last.b = 0)

\* the third reallocation happened
C11_Witness ==
  /\ last.op = "push"
  /\ last.b = 3
  /\ string_capacity(v[1]) > 2 * SIZEOF_string_heap_ct


\* S[lo .. hi) of the byte string S, offsets from 0
Range(S, lo, hi) == SubSeq(S, lo + 1, hi)

\* C12: string_left(v, i) leaves S[0 .. min(i,|S|)), string_right(v, i)
\* leaves S[min(i,|S|) .. |S|), string_mid(v, i, n) leaves
\* S[min(i,|S|) .. min(i+n,|S|)), terminated; indexes beyond the size are
\* clamped, no access falls outside the buffer and no byte after the first
\* |S|+1 bytes of the buffer is changed.
C12_LeftRightMid ==
  last.op \in { "left", "right", "mid" } =>
    LET S == last.s1
        lo == Min(last.a, Len(S))
        hi == Min(last.a + last.b, Len(S))
    IN  /\ ~ub
        /\ Content(Mach, 1) =
             IF last.op = "left" THEN Range(S, 0, lo)
             ELSE IF last.op = "right" THEN Range(S, lo, Len(S))
             ELSE Range(S, lo, hi)
        /\ Rd(Mach, 1, string_size(v[1])) = 0
        /\ Len(Buf(Mach, 1)) = Len(Buf(last.pre, 1))
        /\ \A k \in (Len(S) + 1)..(Len(Buf(Mach, 1)) - 1) :
             \/ Rd(Mach, 1, k) = Rd(last.pre, 1, k)
             \/ m_str1ng_stack_p(v[1]) /\ k = SIZEOF_string_heap_ct - 1

\* string_mid took bytes from the middle of a content whose end comes
\* before index + size
C12_Witness ==
  /\ last.op = "mid"
  /\ last.a > 0
  /\ last.a < Len(last.s1)
  /\ last.a + last.b > Len(last.s1)
  /\ Content(Mach, 1) # << >>


(***************************************************************************)
(* Search: the offsets of the occurrences                                  *)
(***************************************************************************)
\* the offsets >= start of the content S at which the needle of the search
\* op occurs: a character, a substring, or any character of a set
Occurrences(op, S, needle, start) ==
  IF op \in { "search_char", "search_rchar" }
  THEN { k \in start..(Len(S) - 1) : S[k + 1] = needle[1] }
  ELSE IF op \in { "search_str", "search" }
  THEN { k \in start..Len(S) : IsAt(S, k, needle) }
  ELSE { k \in start..(Len(S) - 1) :
           \E n \in 1..Len(needle) : needle[n] = S[k + 1] }

SearchOps == { "search_char", "search_rchar", "search_str", "search", "search_pbrk" }

\* the offset a search has to return
Expected(op, S, needle, start) ==
  LET occ == Occurrences(op, S, needle, start)
  IN  IF occ = { } THEN STRING_FAILURE
      ELSE IF op = "search_rchar"
      THEN CHOOSE k \in occ : \A n \in occ : n <= k
      ELSE CHOOSE k \in occ : \A n \in occ : k <= n

\* C13: with start <= size, string_search_char, string_search_str,
\* string_search and string_search_pbrk return the smallest offset >= start
\* at which the character / substring / a character of the set occurs in
\* the content, string_search_rchar the largest, and STRING_FAILURE (never
\* a valid offset) when there is none; on an empty string
\* string_search_char returns STRING_FAILURE for every character.
C13_SearchReturnsOccurrence ==
  last.op \in SearchOps =>
    /\ last.b = Expected(last.op, last.s2, last.s1, last.a)
    /\ STRING_FAILURE \notin 0..Len(last.s2)

\* the searches agree with C13 for every character but the terminator
SearchAgreesButForNul ==
  (last.op \in SearchOps /\ last.s1 # << 0 >>) =>
    last.b = Expected(last.op, last.s2, last.s1, last.a)


\* C14: for pos + len <= |S|, string_replace_at(v, pos, len, R) leaves
\* S[0..pos) ++ R ++ S[pos+len..|S|), of size |S| - len + |R|, terminated,
\* whether R is shorter than, as long as or longer than len, and when the
\* string moves from the inline buffer to the heap.
C14_ReplaceAtSplices ==
  last.op = "replace_at" =>
    LET S == last.s1
        R == last.s2
    IN  /\ ~ub /\ ~aborted
        /\ Content(Mach, 1) =
             Range(S, 0, last.a) \o R \o Range(S, last.a + last.b, Len(S))
        /\ string_size(v[1]) = Len(S) - last.b + Len(R)
        /\ Rd(Mach, 1, string_size(v[1])) = 0
        /\ string_size(v[1]) < string_capacity(v[1])

\* a longer replacement inside an inline string moved it to the heap
C14_Witness ==
  /\ last.op = "replace_at"
  /\ m_str1ng_stack_p(last.pre.v[1])
  /\ HeapBacked(Mach, 1)
  /\ last.a > 0
  /\ last.b > 0
  /\ last.a + last.b < Len(last.s1)


(***************************************************************************)
(* Trim: reference                                                         *)
(***************************************************************************)
InSet(b, chars) == \E n \in 1..Len(chars) : chars[n] = b

\* S without its longest prefix of bytes of chars
RECURSIVE DropHead(_, _)
DropHead(S, chars) ==
  IF S # << >> /\ InSet(S[1], chars) THEN DropHead(Tail(S), chars) ELSE S

\* S without its longest suffix of bytes of chars
RECURSIVE DropTail(_, _)
DropTail(S, chars) ==
  IF S # << >> /\ InSet(S[Len(S)], chars)
  THEN DropTail(SubSeq(S, 1, Len(S) - 1), chars)
  ELSE S

\* C15: string_strim(v, chars) removes exactly the longest prefix and the
\* longest suffix of bytes that belong to chars (all of it when every byte
\* belongs to chars), keeps the bytes in between, and leaves the string
\* terminated; a second call with the same chars changes nothing.
C15_StrimTrimsBothEnds ==
  last.op = "strim" =>
    /\ ~ub
    /\ Content(Mach, 1) = DropTail(DropHead(Content(last.pre, 1), last.s2), last.s2)
    /\ Rd(Mach, 1, string_size(v[1])) = 0
    /\ last.a = 2 => Mach = last.pre

\* a second call was made on a string that lost bytes at both ends in the
\* first one and kept a byte of chars in the middle
C15_Witness ==
  /\ last.op = "strim"
  /\ last.a = 2
  /\ Len(last.s1) = Len(Content(Mach, 1)) + 2
  /\ InSet(last.s1[1], last.s2)
  /\ InSet(last.s1[Len(last.s1)], last.s2)
  /\ \E k \in 1..Len(Content(Mach, 1)) : InSet(Content(Mach, 1)[k], last.s2)


(***************************************************************************)
(* Quoted form: reference                                                  *)
(***************************************************************************)
\* what the quoted form holds for the byte b
QuotedByte(b) ==
  IF b = 92 THEN << 92, 92 >>
  ELSE IF b = 34 THEN << 92, 34 >>
  ELSE IF b = 10 THEN << 92, 110 >>
  ELSE IF b = 9 THEN << 92, 116 >>
  ELSE IF b = 13 THEN << 92, 114 >>
  ELSE IF b >= 32 /\ b < CHAR_MAX THEN << b >>
  ELSE << 92, 48 + (b \div 64), 48 + ((b \div 8) % 8), 48 + (b % 8) >>

RECURSIVE QuotedBytes(_)
QuotedBytes(S) ==
  IF S = << >> THEN << >> ELSE QuotedByte(S[1]) \o QuotedBytes(Tail(S))

\* what string_get_str left in the string, what string_out_str wrote
Written == IF last.op = "get_str" THEN Content(Mach, 2) ELSE last.s2

\* C16: string_get_str and string_out_str write '"', then for every byte
\* its two-character escape (backslash, quote, newline, tab, CR), the byte
\* itself (other printable ASCII) or a backslash and the three octal digits
\* of its value (000-377), then '"'.
C16_QuotedForm ==
  last.op \in { "get_str", "out_str" } =>
    Written = << 34 >> \o QuotedBytes(last.s1) \o << 34 >>

\* the quoted form is the one of C16 for the strings of bytes up to 127,
\* and for every string when char is unsigned and no byte above 127 is
\* printable
QuotedFormOfAscii ==
  (/\ last.op \in { "get_str", "out_str" }
   /\ \/ \A k \in DOMAIN last.s1 : last.s1[k] <= CHAR_MAX
      \/ ~charSigned /\ ~printHigh) =>
    Written = << 34 >> \o QuotedBytes(last.s1) \o << 34 >>


(***************************************************************************)
(* Quoted form: reference reader                                           *)
(***************************************************************************)
\* the byte an escape letter stands for
Unescaped(e) ==
  IF e = 110 THEN 10 ELSE IF e = 116 THEN 9 ELSE IF e = 114 THEN 13 ELSE e

\* the input inp read from offset k on, after the opening quote: ok when a
\* closing quote is reached before the end and before a backslash that is
\* followed neither by n, t, r, \, " nor by three octal digits; out is acc
\* and the bytes decoded until then
RECURSIVE RefRead(_, _, _)
RefRead(inp, k, acc) ==
  IF k >= Len(inp) THEN [ok |-> FALSE, out |-> acc]
  ELSE IF inp[k + 1] = 34 THEN [ok |-> TRUE, out |-> acc]
  ELSE IF inp[k + 1] # 92 THEN RefRead(inp, k + 1, acc \o << inp[k + 1] >>)
  ELSE IF k + 1 < Len(inp) /\ inp[k + 2] \in { 110, 116, 114, 92, 34 }
  THEN RefRead(inp, k + 2, acc \o << Unescaped(inp[k + 2]) >>)
  ELSE IF k + 3 < Len(inp) /\ \A n \in 2..4 : IsOctal(inp[k + n])
  THEN RefRead(inp, k + 4,
               acc \o << ((inp[k + 2] - 48) * 64 + (inp[k + 3] - 48) * 8
                          + (inp[k + 4] - 48)) % 256 >>)
  ELSE [ok |-> FALSE, out |-> acc]

\* C17: string_parse_str and string_in_str return false exactly when the
\* input has no leading '"', has a backslash followed neither by n, t, r,
\* \, " nor by three octal digits, or ends before a closing '"'; the target
\* is then still terminated at its size, with size < capacity, and holds
\* the bytes decoded before the failure; it is unchanged when the leading
\* quote is missing.
C17_ParseFailsExactly ==
  last.op \in { "parse_str", "in_str" } =>
    LET inp == last.s1
        quoted == inp # << >> /\ inp[1] = 34
        ref == RefRead(inp, 1, << >>)
    IN  /\ ~ub /\ ~aborted
        /\ last.ret = (quoted /\ ref.ok)
        /\ ~quoted => Mach = last.pre
        /\ quoted => Content(Mach, 1) = ref.out
        /\ Rd(Mach, 1, string_size(v[1])) = 0
        /\ string_size(v[1]) < string_capacity(v[1])

\* a read failed on a backslash followed by fewer than three octal digits,
\* after it had decoded an escape
C17_Witness ==
  /\ last.op \in { "parse_str", "in_str" }
  /\ ~last.ret
  /\ Content(Mach, 1) = << 10 >>
  /\ \E k \in 1..(Len(last.s1) - 1) : last.s1[k] = 92 /\ last.s1[k + 1] = 55


(***************************************************************************)
(* UTF-8 iteration: reference                                              *)
(***************************************************************************)
\* S is valid UTF-8: well-formed sequences, each the shortest encoding of
\* its value
RECURSIVE Utf8Valid(_)
Utf8Valid(S) ==
  \/ S = << >>
  \/ LET n == LeadLen(S[1])
     IN  /\ n > 0
         /\ n <= Len(S)
         /\ \A k \in 2..n : IsContinuation(S[k])
         /\ SeqValue(S, n, n) <= 1114111
         /\ ~(SeqValue(S, n, n) >= 55296 /\ SeqValue(S, n, n) <= 57343)
         /\ n = 2 => SeqValue(S, n, n) >= 128
         /\ n = 3 => SeqValue(S, n, n) >= 2048
         /\ n = 4 => SeqValue(S, n, n) >= 65536
         /\ Utf8Valid(SubSeq(S, n + 1, Len(S)))

\* C18: for every valid UTF-8 string U, the code points iterated with
\* string_it / string_end_p / string_next / string_get_cref and pushed with
\* string_push_u on an empty string give U byte for byte.
C18_IterPushRoundTrip ==
  (last.op = "it_end" /\ Utf8Valid(last.s1)) =>
    /\ ~ub
    /\ Content(Mach, 2) = last.s1
    /\ Rd(Mach, 2, string_size(v[2])) = 0
    /\ last.it.ptr = Len(last.s1)

\* a string made of a 4-byte sequence went through the loop
C18_Witness ==
  /\ last.op = "it_end"
  /\ Utf8Valid(last.s1)
  /\ Len(last.s1) = 4
  /\ LeadLen(last.s1[1]) = 4
  /\ Content(Mach, 2) = last.s1


\* the bytes of the iterated string from the position visited
Visited == SubSeq(last.s1, last.a + 1, Len(last.s1))

\* T starts with a lead byte followed by all its continuation bytes
CompleteSeq(T) ==
  /\ LeadLen(T[1]) > 0
  /\ LeadLen(T[1]) <= Len(T)
  /\ \A k \in 2..LeadLen(T[1]) : IsContinuation(T[k])

\* T starts with a lead byte and ends before the first byte that is not
\* one of its continuation bytes
CutShort(T) ==
  /\ LeadLen(T[1]) > Len(T)
  /\ \A k \in 2..Len(T) : IsContinuation(T[k])

\* C19: at every visited position where the bytes are not a complete
\* well-formed sequence (invalid lead byte, stray, missing or wrong
\* continuation byte, sequence cut short by the end of the string)
\* string_get_cref is STRING_UNICODE_ERROR, at every other position it is
\* the decoded code point, and the iteration goes on with the following
\* bytes.
C19_IterReportsErrors ==
  last.op = "it_step" =>
    /\ last.it.u = (IF CompleteSeq(Visited)
                    THEN SeqValue(Visited, LeadLen(Visited[1]),
                                  LeadLen(Visited[1]))
                    ELSE STRING_UNICODE_ERROR)
    /\ last.it.ptr > last.a
    /\ last.it.ptr <= Len(last.s1)

\* the same but for a sequence cut short by the end of the string, whose
\* partial value is reported
IterReportsErrorsButCutShort ==
  (last.op = "it_step" /\ ~CutShort(Visited)) =>
    /\ last.it.u = (IF CompleteSeq(Visited)
                    THEN SeqValue(Visited, LeadLen(Visited[1]),
                                  LeadLen(Visited[1]))
                    ELSE STRING_UNICODE_ERROR)
    /\ last.it.ptr > last.a
    /\ last.it.ptr <= Len(last.s1)

\* a sequence cut short by the end of the string is reported as the value
\* of its bytes so far, never as STRING_UNICODE_ERROR
IterCutShortIsPartialValue ==
  (last.op = "it_step" /\ CutShort(Visited)) =>
    /\ last.it.u # STRING_UNICODE_ERROR
    /\ last.it.u = SeqValue(Visited, LeadLen(Visited[1]), Len(Visited))
    /\ last.it.ptr = Len(last.s1)


(***************************************************************************)
(* string_fgets: reference                                                 *)
(***************************************************************************)
\* the bytes of the stream that the call consumed
BytesRead == SubSeq(last.s1, last.a + 1, last.b)

\* the bytes left in the stream before the call
Unread == SubSeq(last.s1, last.a + 1, Len(last.s1))

\* C20: string_fgets returns true if and only if at least one byte was read
\* during the call; at end of stream it returns false and the string is
\* empty; when no newline comes before the end of the stream it returns
\* true and the string holds the bytes read; in STRING_READ_LINE mode the
\* string holds the bytes up to and including the first newline.
C20_FgetsReadsBytes ==
  last.op \in { "fgets", "fgets_loops" } =>
    /\ last.op = "fgets"
    /\ ~ub
    /\ ~aborted
    /\ last.ret <=> (Len(BytesRead) > 0)
    /\ Len(Unread) = 0 => (~last.ret /\ Content(Mach, 1) = << >>)
    /\ (Len(Unread) > 0 /\ LineEnd(Unread) = Len(Unread)) =>
         (last.ret /\ Content(Mach, 1) = BytesRead /\ BytesRead = Unread)
    /\ (last.i = STRING_READ_LINE /\ LineEnd(Unread) < Len(Unread)) =>
         Content(Mach, 1) = SubSeq(Unread, 1, LineEnd(Unread) + 1)


\* the stream holds no null character
TextStream == \A k \in 1..Len(last.s1) : last.s1[k] # 0

\* on a stream without null characters a call that returns does what C20
\* says
FgetsOnTextThatReturns ==
  (last.op = "fgets" /\ TextStream) =>
    /\ ~ub
    /\ ~aborted
    /\ last.ret <=> (Len(BytesRead) > 0)
    /\ Len(Unread) = 0 => (~last.ret /\ Content(Mach, 1) = << >>)
    /\ (Len(Unread) > 0 /\ LineEnd(Unread) = Len(Unread)) =>
         (last.ret /\ Content(Mach, 1) = BytesRead /\ BytesRead = Unread)
    /\ (last.i = STRING_READ_LINE /\ LineEnd(Unread) < Len(Unread)) =>
         Content(Mach, 1) = SubSeq(Unread, 1, LineEnd(Unread) + 1)

\* the call does not return in STRING_READ_FILE mode when a newline is the
\* last byte the buffer has room for
FgetsLoopsOnFullBuffer ==
  last.op = "fgets_loops" =>
    /\ last.i = STRING_READ_FILE
    /\ Len(BytesRead) = string_capacity(v[1]) - 1
    /\ BytesRead[Len(BytesRead)] = 10


\* C21: in STRING_READ_PURE_LINE mode, after string_fgets reads a line
\* ended by LF or by CR LF, the string is the line without the trailing CR
\* and LF: it ends with neither '\r' nor '\n'.
C21_PureLineStripsCrLf ==
  (/\ last.op = "fgets"
   /\ last.i = STRING_READ_PURE_LINE
   /\ LineEnd(Unread) < Len(Unread)
   /\ ~ub
   /\ ~aborted) =>
    \/ Content(Mach, 1) = << >>
    \/ Content(Mach, 1)[Len(Content(Mach, 1))] \notin { 10, 13 }

\* in that mode the line feed is removed and nothing else: on a stream
\* without null characters the string holds the bytes before the line feed
PureLineStripsLfOnly ==
  (/\ last.op = "fgets"
   /\ last.i = STRING_READ_PURE_LINE
   /\ LineEnd(Unread) < Len(Unread)
   /\ TextStream) =>
    Content(Mach, 1) = SubSeq(Unread, 1, LineEnd(Unread))


\* C22: after string_oor_set(s, n), string_oor_equal_p(s, n) is true and
\* string_oor_equal_p(s, 1-n) is false; for a valid string v, inline or on
\* the heap, of any size, string_oor_equal_p(v, n) is false, and
\* string_equal_p between v and an out-of-range value is false.
C22_OorIsNoString ==
  /\ last.op = "oor_equal_p" =>
       (last.ret <=> (last.i = 2 /\ last.a = last.b))
  /\ last.op = "equal_p" => (~last.ret /\ ~aborted /\ ~ub)

\* the same where char is signed: the size read from an out-of-range value
\* is above every size
OorIsNoStringSignedChar ==
  charSigned => C22_OorIsNoString

\* with an unsigned char the size read from an out-of-range value is 255,
\* and string_equal_p goes on to string_cmp only for a string of that size
OorEqualPComparesSize255 ==
  (last.op = "equal_p" /\ (aborted \/ ub)) =>
    (~charSigned /\ Len(last.s1) = 2 * CHAR_MAX + 1)


(***************************************************************************)
(* Heap blocks                                                             *)
(***************************************************************************)
\* the blocks that are allocated
Allocated == { b \in BlockIds : heap[b] # << >> }

\* the live strings that point to block b
Owners(b) == { i \in StrIds : live[i] /\ v[i].ptr = b }

\* C23: string_clear releases the heap buffer of a heap-backed string and
\* leaves the value invalid (null pointer, size byte CHAR_MAX, so that size
\* < capacity fails).  Over any sequence of init, mutators, reserve, swap,
\* move and clear_get_str each heap buffer is released or handed to the
\* caller exactly once: every allocated block belongs to exactly one live
\* string or to the caller, every live heap-backed string points to an
\* allocated block of its own, no access fell outside a buffer, and when
\* every string is cleared the only blocks left are the caller's.
C23_BlocksReleasedOnce ==
  /\ ~ub
  /\ \A b \in Allocated :
       IF b \in given THEN Owners(b) = { } ELSE Cardinality(Owners(b)) = 1
  /\ \A i \in StrIds :
       (live[i] /\ v[i].ptr # 0) => v[i].ptr \in Allocated
  /\ given \subseteq Allocated
  /\ (\A i \in StrIds : ~live[i]) => Allocated = given
  /\ last.op \in { "clear", "clear_get_str" } =>
       /\ v[last.i].ptr = 0
       /\ v[last.i].u[SIZEOF_string_heap_ct] = CHAR_MAX
       /\ ~(string_size(v[last.i]) < string_capacity(v[last.i]))
  /\ (last.op = "clear" /\ last.pre.v[last.i].ptr # 0) =>
       heap[last.pre.v[last.i].ptr] = << >>
  /\ last.op = "clear_get_str" =>
       /\ SubSeq(heap[last.b], 1, Len(last.s1) + 1) = last.s1 \o << 0 >>
       /\ last.pre.v[last.i].ptr # 0 => last.b = last.pre.v[last.i].ptr

\* both strings were on the heap; one was cleared, the other handed over
C23_Witness ==
  /\ last.op = "clear"
  /\ last.pre.v[last.i].ptr # 0
  /\ \A i \in StrIds : ~live[i]
  /\ Cardinality(given) = 1
  /\ Allocated = given


\* C24: in string_replace_all_str with |P| < |R|, for every string and
\* every prior capacity, the capacity after the single growth to
\* size/|P|*|R| + 1 is enough for the reverse pass: no byte is written
\* outside the buffer, no source byte is overwritten before it is read (the
\* content is the copies of R and the tail), and the string is terminated
\* at its new size with size < capacity.
C24_PreGrowthSuffices ==
  last.op = "replace_all_lo" =>
    /\ ~ub
    /\ ~aborted
    /\ Content(Mach, 1) = Copies(last.s2, last.j) \o [k \in 1..last.it.u |-> 120]
    /\ Rd(Mach, 1, string_size(v[1])) = 0
    /\ string_size(v[1]) < string_capacity(v[1])

\* the same when the pattern divides the size of the string: then
\* size/|P|*|R| + 1 is the size of the result and its terminator
PreGrowthSufficesWhenPatternDividesSize ==
  (last.op = "replace_all_lo" /\ last.a % Len(last.s1) = 0) =>
    /\ ~ub
    /\ ~aborted
    /\ Content(Mach, 1) = Copies(last.s2, last.j) \o [k \in 1..last.it.u |-> 120]
    /\ Rd(Mach, 1, string_size(v[1])) = 0
    /\ string_size(v[1]) < string_capacity(v[1])


\* C25: with words of w bits, when the allocation requested is above the
\* capacity and size_alloc + size_alloc/2 is above 2^w - 1,
\* m_str1ng_fit2size aborts; it never leaves the string with a capacity
\* below size_alloc.
C25_OverflowIsFatal ==
  (last.op = "fit2size_words" /\ last.b > last.a) =>
    /\ (last.b + last.b \div 2 > WordMod - 1) => aborted
    /\ ~aborted => last.j >= last.b

\* the test alloc <= old_alloc catches the overflow exactly when the
\* wrapped value does not exceed the capacity
OverflowIsFatalWhenWrappedBelowCapacity ==
  (/\ last.op = "fit2size_words"
   /\ last.b > last.a
   /\ last.b + last.b \div 2 > WordMod - 1
   /\ last.b + last.b \div 2 - WordMod <= last.a) => aborted


(***************************************************************************)
(* Growth of the capacity                                                  *)
(***************************************************************************)
\* the allocation the result needs: its length and the terminator
Requested == string_size(v[1]) + 1

OldCapacity == string_capacity(last.pre.v[1])

\* the content before is the start of the content after an append
KeepsContent ==
  (last.op \in { "push_back", "cat_str", "cat" }
     \/ (last.op = "get_str" /\ last.a = 1)) =>
    SubSeq(Content(Mach, 1), 1, string_size(last.pre.v[1])) = Content(last.pre, 1)

\* the capacity and the block are those before
SameBuffer ==
  /\ string_capacity(v[1]) = OldCapacity
  /\ v[1].ptr = last.pre.v[1].ptr

\* C26: when a mutator needs an allocation requested (new length + 1) above
\* the capacity, the capacity after is requested + requested/2 and the
\* content before is preserved; when requested <= capacity the capacity and
\* the buffer are unchanged.
C26_CapacityIsHalfMore ==
  last.op # "start" =>
    /\ ~ub
    /\ ~aborted
    /\ KeepsContent
    /\ IF Requested > OldCapacity
       THEN string_capacity(v[1]) = Requested + Requested \div 2
       ELSE SameBuffer

\* C26 amended: the same for every mutator but string_get_str, which asks
\* for size + size(v2) + 3 first and for 1 or 3 more at each escaped byte:
\* its capacity after is that before, or t + t/2 for one of these requests
\* t, and is at least requested.
C26_CapacityIsHalfMoreOfRequest ==
  last.op # "start" =>
    /\ ~ub
    /\ ~aborted
    /\ KeepsContent
    /\ Requested <= OldCapacity => SameBuffer
    /\ last.op # "get_str" =>
         (Requested > OldCapacity =>
            string_capacity(v[1]) = Requested + Requested \div 2)
    /\ last.op = "get_str" =>
         /\ string_capacity(v[1]) >= Requested
         /\ \/ SameBuffer
            \/ \E t \in (last.a * string_size(last.pre.v[1]) + Len(last.s1) + 3)
                          ..Requested :
                 /\ t > OldCapacity
                 /\ string_capacity(v[1]) = t + t \div 2

\* string_get_str grew an inline string before it met an escaped byte, and
\* the capacity is below requested + requested/2
C26_Witness ==
  /\ last.op = "get_str"
  /\ m_str1ng_stack_p(last.pre.v[1])
  /\ HeapBacked(Mach, 1)
  /\ Requested > OldCapacity
  /\ string_capacity(v[1]) < Requested + Requested \div 2


\* the class of a byte by its leading bits: 0 for 0xxxxxxx (one-byte
\* character), 1 for 10xxxxxx (continuation), 2, 3, 4 for the lead of a
\* 2, 3, 4 byte character, 5 for every other byte
Utf8Class(c) ==
  IF c < 128 THEN 0
  ELSE IF c < 192 THEN 1
  ELSE IF c < 224 THEN 2
  ELSE IF c < 240 THEN 3
  ELSE IF c < 248 THEN 4
  ELSE 5

\* the documented transition table
Utf8Transition(state, c) ==
  IF state = M_STRING_UTF8_STARTING
  THEN CASE Utf8Class(c) = 0 -> M_STRING_UTF8_STARTING
         [] Utf8Class(c) = 2 -> M_STRING_UTF8_DECODING_1
         [] Utf8Class(c) = 3 -> M_STRING_UTF8_DECODING_2
         [] Utf8Class(c) = 4 -> M_STRING_UTF8_DOCODING_3
         [] OTHER -> M_STRING_UTF8_ERROR
  ELSE IF state = M_STRING_UTF8_ERROR THEN M_STRING_UTF8_ERROR
  ELSE IF Utf8Class(c) = 1 THEN state - M_STRING_UTF8_DECODING_1
  ELSE M_STRING_UTF8_ERROR

\* C27: from every one of the five decoder states and on every byte 0x00 to
\* 0xFF, m_str1ng_utf8_decode leaves one of the five states, the one the
\* documented table gives: from START an ASCII byte stays in START, a 2, 3,
\* 4 byte lead goes to DECODING_1, 2, 3 and any other byte to ERROR; from
\* DECODING_k a continuation byte goes to DECODING_(k-1), START when k = 1,
\* and any other byte to ERROR; from ERROR every byte stays in ERROR.
C27_DecodeFollowsTable ==
  last.op = "utf8_decode" =>
    /\ last.b \in Utf8States
    /\ last.b = Utf8Transition(last.i, last.j)

\* The step follows the table on every state and byte but one: the byte
\* 0xFF in the state ERROR, which reads the terminator of the table and
\* leaves the state START.
DecodeFollowsTableButErrorFF ==
  last.op = "utf8_decode" =>
    /\ last.b \in Utf8States
    /\ IF last.i = M_STRING_UTF8_ERROR /\ last.j = 2 * CHAR_MAX + 1
       THEN last.b = M_STRING_UTF8_STARTING
       ELSE last.b = Utf8Transition(last.i, last.j)


\* the turns of the loop taken so far: string_it is the first step
Iterations == IF last.op = "it_end" THEN steps - 2 ELSE steps - 1

\* a turn of the loop moves the cursor forward by one to four bytes, not
\* over a NUL and not past the terminator, and the turns are at most
\* size(s)
IterAdvances ==
  last.op \in { "it_step", "it_end" } =>
    /\ Iterations <= Len(last.s1)
    /\ last.it.ptr <= Len(last.s1)
    /\ last.op = "it_step" =>
         /\ last.it.ptr - last.a \in 1 .. 4
         /\ \A k \in last.a .. last.it.ptr - 1 : Rd(last.pre, 1, k) # 0
    /\ last.op = "it_end" => last.it.ptr = Len(last.s1)

\* C28: the loop for (string_it(it, s); !string_end_p(it); string_next(it))
\* ends for every byte string s, valid UTF-8 or not, after at most size(s)
\* turns: each turn moves the cursor forward by one to four bytes, never
\* backward and never past the terminating NUL of s.
C28_LoopTerminates == [] IterAdvances /\ <> (last.op = "it_end")

\* the loop ended on a string of four bytes that is not valid UTF-8, after
\* two turns
C28_Witness ==
  /\ last.op = "it_end"
  /\ ~ Utf8Valid(last.s1)
  /\ Len(last.s1) = 4
  /\ Iterations = 2
  /\ last.it.ptr = 4


\* C29: the position string_parse_str stores in *endptr lies inside the
\* input C string, at most at its terminating NUL and never past it: just
\* after the closing quote on success, and at or before the terminator on
\* every failure (empty input, missing leading quote, malformed escape,
\* missing closing quote).
C29_EndptrInsideInput ==
  last.op = "parse_str" =>
    /\ last.a <= Len(last.s1)
    /\ last.ret => (last.a >= 2 /\ last.s1[last.a] = 34)

\* *endptr is the position after the character read last: after the closing
\* quote on success, at most at the terminator when the read failed on a
\* character of the input, and one past the terminator when the character
\* read last was the terminator itself.
EndptrIsAfterLastRead ==
  last.op = "parse_str" =>
    /\ last.a \in 1 .. Len(last.s1) + 1
    /\ last.ret => (last.a >= 2 /\ last.a <= Len(last.s1)
                    /\ last.s1[last.a] = 34)
    /\ last.s1 = << >> => last.a = 1
    /\ (last.s1 # << >> /\ last.s1[1] # 34) => last.a = 1
    /\ (last.s1 # << >> /\ last.s1[1] = 34 /\ ~last.ret
        /\ \A k \in 2 .. Len(last.s1) : last.s1[k] \notin { 34, 92 })
         => last.a = Len(last.s1) + 1



(***************************************************************************)
(* Variant: type tag and life of the field values                          *)
(***************************************************************************)
\* the objects that hold the value id: live, with the tag of its field
VarHolders(id) ==
  { k \in VarIds : /\ variants.my[k].st = "live"
                   /\ variants.my[k].value = id
                   /\ variants.my[k].type = variants.made[id].field }

\* the tag of every constructed object is EMPTY or the tag of the field
\* whose value its union holds, and EMPTY after _clear or a move from it
VarTagOfHeldValue ==
  \A k \in VarIds :
    variants.my[k].st # "raw" =>
      /\ variants.my[k].type \in { variant_EMPTY } \cup VarFields
      /\ variants.my[k].type # variant_EMPTY =>
           VarAlive(VarMach, variants.my[k].value, variants.my[k].type)
      /\ variants.my[k].st = "dead" => variants.my[k].type = variant_EMPTY

\* every value constructed was destroyed once, or is still held by one
\* object, which destroys it later
VarDestroyedOnce ==
  \A id \in 1 .. Len(variants.made) :
    /\ variants.made[id].destroyed <= 1
    /\ variants.made[id].destroyed = 0 => Cardinality(VarHolders(id)) = 1
    /\ variants.made[id].destroyed = 1 => VarHolders(id) = { }

\* C30: after any sequence of _init, _init_set, _set, _set_<field>,
\* _init_<field>, _move, _init_move, _move_<field>, _swap and _clear, the
\* type tag is EMPTY or the tag of the one field whose value is constructed;
\* _get_<field> and _cget_<field> return non-NULL exactly when the tag is
\* that field; _init, _clear and the source of _init_move and _move leave
\* the tag EMPTY; every field value constructed is destroyed exactly once,
\* also when _set or _set_<field> changes the type held and when _swap
\* exchanges two different types.
C30_VariantTagAndLife ==
  variants # NoVariants =>
    /\ ~ub /\ ~aborted
    /\ VarTagOfHeldValue
    /\ VarDestroyedOnce
    /\ last.op = "get_field" => last.ret = (variants.my[last.i].type = last.j)
    /\ last.op \in { "init", "clear" } =>
         variants.my[last.i].type = variant_EMPTY
    /\ last.op \in { "init_move", "move" } =>
         variants.my[last.j].type = variant_EMPTY
    /\ last.op \in { "set_field", "move_field", "init_field",
                     "init_set_field" } => variants.my[last.i].type = last.j
    /\ last.op \in { "set", "init_set" } =>
         variants.my[last.i].type = variants.my[last.j].type
    /\ last.op = "swap" =>
         /\ variants.my[last.i].type = last.b
         /\ last.i # last.j => variants.my[last.j].type = last.a

\* _swap has exchanged a value of the field 1 and a value of the field 2,
\* and the values they replaced are destroyed
C30_Witness ==
  /\ last.op = "swap"
  /\ last.a = 1 /\ last.b = 2
  /\ variants.my[last.i].type = 2
  /\ variants.my[last.j].type = 1
  /\ Len(variants.made) = 5
  /\ Cardinality({ id \in 1 .. 5 : variants.made[id].destroyed = 1 }) = 3

====
